---- MODULE Spec2Model ----
(***************************************************************************)
(* Model of the numeric core of the market manipulator function            *)
(* (src/functions/marketManipulator/src/main.js, the revision with the     *)
(* logger, lines 431-673): calculateAverageChange reduces the real-world   *)
(* documents to an average change, calculateMarketManipulator maps it to   *)
(* the signed manipulator, and updateManipulatorCollection / the response  *)
(* format it with toFixed(2).                                              *)
(*                                                                         *)
(* JavaScript numbers are modelled as binary doubles: a sign, an odd       *)
(* significand below 2^53 and a binary exponent, with the two zeros, the   *)
(* two infinities and NaN; every operation rounds its exact result to the  *)
(* nearest double, as the program's do.  Strings are sequences             *)
(* of one-character strings, so that parseFloat and replace are computed   *)
(* character by character.                                                 *)
(***************************************************************************)
EXTENDS Integers, Sequences, FiniteSets, TLC

VARIABLES
    pc,                 \* position of the invocation under study
    averageChange,      \* argument handed to calculateMarketManipulator
    marketManipulator,  \* value returned by calculateMarketManipulator
    manipulatorValue,   \* Number(marketManipulator.toFixed(2))
    symbols,            \* argument handed to calculateAverageChange
    average,            \* outcome of calculateAverageChange (value or throw)
    realWorldCollection,    \* the store's real-world collection
    manipulatorCollection,  \* the store's manipulator collection
    inGameCollection,       \* the store's in-game collection
    env,                \* the environment variables that are set
    orch,               \* locals of each manipulator-orchestrator invocation
    overlapped,         \* history: two orchestrator invocations have overlapped
    scrape,             \* locals of the scrape invocation
    market,             \* locals of the market-update invocation
    seed                \* locals of the seeding invocation

\* the state of the functions on bounded inputs
pureVars == <<pc, averageChange, marketManipulator, manipulatorValue, symbols, average>>

\* the store, the configuration and the invocations of the entry points
systemVars ==
    <<realWorldCollection, manipulatorCollection, inGameCollection, env, orch,
      overlapped, scrape, market, seed>>

vars == <<pureVars, systemVars>>

----------------------------------------------------------------------------
(* Bounds of the model *)

\* numerators of the average-change inputs range over -MaxNum..MaxNum
MaxNum == 36
\* denominators of the average-change inputs range over 1..MaxDen
MaxDen == 3
\* longest sequence of documents handed to calculateAverageChange
MaxDocs == 3

----------------------------------------------------------------------------
(* Natural numbers of any size: the significands of doubles and the exact   *)
(* results of their operations before rounding                              *)

\* the element of a one-element set.  An operator applies it to the set
\* { e : a \in {x} } to have its operand x evaluated once, before e
Only(S) == CHOOSE v \in S : TRUE

Abs(i) == IF i < 0 THEN -i ELSE i

\* a natural number is the sequence of its digits in base Base = 2^LimbBits,
\* the lowest first, without leading zeros; zero is the empty sequence.  An
\* operation over the digits i..j is split at the middle of the range, the
\* carry of one half handed to the other
LimbBits == 14
Base == 16384

RECURSIVE Pow2(_)
Pow2(k) == IF k = 0 THEN 1 ELSE 2 * Pow2(k - 1)

\* a without its leading zero digits
Trim(a) ==
    Only({ IF x = <<>> \/ x[Len(x)] # 0 THEN x
           ELSE IF \A i \in 1..Len(x) : x[i] = 0 THEN <<>>
           ELSE SubSeq(x, 1, CHOOSE i \in 1..Len(x) :
                                x[i] # 0 /\ \A k \in (i + 1)..Len(x) : x[k] = 0)
           : x \in {a} })

\* the natural number i
RECURSIVE FromInt(_)
FromInt(i) == IF i = 0 THEN <<>> ELSE <<i % Base>> \o FromInt(i \div Base)

\* the digit of weight Base^(i-1)
Limb(a, i) == IF i >= 1 /\ i <= Len(a) THEN a[i] ELSE 0

\* -1, 0 or 1 as a < b, a = b or a > b
BigCmp(a, b) ==
    Only({ IF Len(x) # Len(y) THEN (IF Len(x) < Len(y) THEN -1 ELSE 1)
           ELSE IF \A i \in 1..Len(x) : x[i] = y[i] THEN 0
           ELSE Only({ IF x[i] < y[i] THEN -1 ELSE 1
                       : i \in { CHOOSE i \in 1..Len(x) :
                                   x[i] # y[i] /\ \A k \in (i + 1)..Len(x) : x[k] = y[k] } })
           : x \in {a}, y \in {b} })

\* the digits i..j of a + b + carry, and the carry out of them
RECURSIVE AddRange(_, _, _, _, _)
AddRange(a, b, i, j, carry) ==
    IF i = j
    THEN Only({ [d |-> <<t % Base>>, c |-> t \div Base]
                : t \in {Limb(a, i) + Limb(b, i) + carry} })
    ELSE Only({ Only({ [d |-> low.d \o high.d, c |-> high.c]
                       : high \in {AddRange(a, b, ((i + j) \div 2) + 1, j, low.c)} })
                : low \in {AddRange(a, b, i, (i + j) \div 2, carry)} })

\* a + b
BigAdd(a, b) ==
    Only({ Only({ IF n = 0 THEN <<>>
                  ELSE Only({ IF s.c = 0 THEN s.d ELSE s.d \o <<s.c>>
                              : s \in {AddRange(x, y, 1, n, 0)} })
                  : n \in {IF Len(x) > Len(y) THEN Len(x) ELSE Len(y)} })
           : x \in {a}, y \in {b} })

\* the digits i..j of a - b - borrow, and the borrow out of them
RECURSIVE SubRange(_, _, _, _, _)
SubRange(a, b, i, j, borrow) ==
    IF i = j
    THEN Only({ [d |-> <<(t + Base) % Base>>, c |-> IF t < 0 THEN 1 ELSE 0]
                : t \in {a[i] - Limb(b, i) - borrow} })
    ELSE Only({ Only({ [d |-> low.d \o high.d, c |-> high.c]
                       : high \in {SubRange(a, b, ((i + j) \div 2) + 1, j, low.c)} })
                : low \in {SubRange(a, b, i, (i + j) \div 2, borrow)} })

\* a - b, for a >= b
BigSub(a, b) ==
    Only({ IF x = <<>> THEN <<>> ELSE Trim(SubRange(x, y, 1, Len(x), 0).d)
           : x \in {a}, y \in {b} })

\* the sum of the products a[c+1-k] * b[k] for k in i..j, terms of weight
\* Base^(c-1) of a * b: lo + Base * hi with lo a digit
RECURSIVE ColumnRange(_, _, _, _, _)
ColumnRange(a, b, c, i, j) ==
    IF i > j THEN [lo |-> 0, hi |-> 0]
    ELSE IF i = j
    THEN Only({ [lo |-> t % Base, hi |-> t \div Base] : t \in {a[c + 1 - i] * b[i]} })
    ELSE Only({ Only({ [lo |-> t % Base, hi |-> l.hi + r.hi + (t \div Base)]
                       : t \in {l.lo + r.lo} })
                : l \in {ColumnRange(a, b, c, i, (i + j) \div 2)},
                  r \in {ColumnRange(a, b, c, ((i + j) \div 2) + 1, j)} })

\* a * b for a, b # 0: the columns of the written product, then their sum
MulColumns(a, b) ==
    Only({ Trim(BigAdd(BigAdd([c \in 1..Len(cols) |-> cols[c].lo],
                              <<0>> \o [c \in 1..Len(cols) |-> cols[c].hi % Base]),
                       <<0, 0>> \o [c \in 1..Len(cols) |-> cols[c].hi \div Base]))
           : cols \in { [c \in 1..(Len(a) + Len(b) - 1) |->
                           ColumnRange(a, b, c,
                                       IF c > Len(a) THEN c + 1 - Len(a) ELSE 1,
                                       IF c < Len(b) THEN c ELSE Len(b))] \o <<>> } })

\* a * b
BigMul(a, b) ==
    Only({ IF x = <<>> \/ y = <<>> THEN <<>> ELSE MulColumns(x, y)
           : x \in {a}, y \in {b} })

\* a * 2^k
BigShl(a, k) ==
    Only({ IF x = <<>> THEN <<>>
           ELSE Trim([j \in 1..(Len(x) + q + 1) |->
                        ((Limb(x, j - q) * p) % Base)
                            + ((Limb(x, j - q - 1) * p) \div Base)] \o <<>>)
           : x \in {a}, q \in {k \div LimbBits}, p \in {Pow2(k % LimbBits)} })

\* a div 2^k
BigShr(a, k) ==
    Only({ IF Len(x) <= q THEN <<>>
           ELSE Trim([j \in 1..(Len(x) - q) |->
                        (Limb(x, j + q) \div p)
                            + ((Limb(x, j + q + 1) % p) * (Base \div p))] \o <<>>)
           : x \in {a}, q \in {k \div LimbBits}, p \in {Pow2(k % LimbBits)} })

RECURSIVE SmallBitLen(_)
SmallBitLen(v) == IF v = 0 THEN 0 ELSE 1 + SmallBitLen(v \div 2)

\* the number of binary digits of a
BitLen(a) ==
    Only({ IF x = <<>> THEN 0
           ELSE LimbBits * (Len(x) - 1) + SmallBitLen(x[Len(x)])
           : x \in {a} })

\* the binary digit of a of weight 2^i
Bit(a, i) == (Limb(a, (i \div LimbBits) + 1) \div Pow2(i % LimbBits)) % 2

RECURSIVE SmallTrailingZeros(_)
SmallTrailingZeros(v) == IF v % 2 = 1 THEN 0 ELSE 1 + SmallTrailingZeros(v \div 2)

\* the number of zero binary digits below the lowest one of a # 0
TrailingZeros(a) ==
    Only({ LimbBits * (i - 1) + SmallTrailingZeros(a[i])
           : i \in { CHOOSE i \in 1..Len(a) :
                       a[i] # 0 /\ \A k \in 1..(i - 1) : a[k] = 0 } })

\* a mod 2^k is zero
LowBitsZero(a, k) ==
    Only({ x = <<>> \/ k <= 0 \/ TrailingZeros(x) >= k : x \in {a} })

\* the digits i..j of the quotient of a[1..j] + r * Base^j by the natural
\* d < 2^17, and the remainder
RECURSIVE ShortDiv(_, _, _, _, _)
ShortDiv(a, d, i, j, r) ==
    IF i = j
    THEN Only({ [q |-> <<cur \div d>>, r |-> cur % d] : cur \in {r * Base + a[i]} })
    ELSE Only({ Only({ [q |-> low.q \o high.q, r |-> low.r]
                       : low \in {ShortDiv(a, d, i, (i + j) \div 2, high.r)} })
                : high \in {ShortDiv(a, d, ((i + j) \div 2) + 1, j, r)} })

\* the largest g in acc..(acc + 2^k - 1) with b * g <= r, given b * acc <= r
RECURSIVE QuotientDigit(_, _, _, _)
QuotientDigit(r, b, k, acc) ==
    IF k = 0 THEN acc
    ELSE Only({ IF BigCmp(BigMul(b, FromInt(t)), r) <= 0
                THEN QuotientDigit(r, b, k - 1, t)
                ELSE QuotientDigit(r, b, k - 1, acc)
                : t \in {acc + Pow2(k - 1)} })

\* the digits i..j of the quotient of a[1..j] + r * Base^j by b, for r < b,
\* and the remainder: one digit at a time, as in long division by hand
RECURSIVE LongDiv(_, _, _, _, _)
LongDiv(a, b, i, j, r) ==
    IF i = j
    THEN Only({ Only({ [q |-> <<g>>, r |-> BigSub(cur, BigMul(b, FromInt(g)))]
                       : g \in {QuotientDigit(cur, b, LimbBits, 0)} })
                : cur \in {Trim(<<a[i]>> \o r)} })
    ELSE Only({ Only({ [q |-> low.q \o high.q, r |-> low.r]
                       : low \in {LongDiv(a, b, i, (i + j) \div 2, high.r)} })
                : high \in {LongDiv(a, b, ((i + j) \div 2) + 1, j, r)} })

\* quotient q and remainder r of a by b # 0.  The long division starts
\* below the leading digits of a that are fewer than those of b
BigDivMod(a, b) ==
    Only({ IF Len(x) < Len(y) THEN [q |-> <<>>, r |-> x]
           ELSE IF Len(y) = 1 \/ (Len(y) = 2 /\ y[2] < 8)
           THEN Only({ [q |-> Trim(s.q), r |-> FromInt(s.r)]
                       : s \in {ShortDiv(x, y[1] + Base * Limb(y, 2), 1, Len(x), 0)} })
           ELSE Only({ [q |-> Trim(s.q), r |-> s.r]
                       : s \in {LongDiv(x, y, 1, Len(x) - Len(y) + 1,
                                        SubSeq(x, Len(x) - Len(y) + 2, Len(x)))} })
           : x \in {a}, y \in {b} })

\* 5^k, by repeated squaring
RECURSIVE BigPow5(_)
BigPow5(k) ==
    IF k = 0 THEN <<1>>
    ELSE Only({ IF k % 2 = 1 THEN BigMul(BigMul(h, h), <<5>>) ELSE BigMul(h, h)
                : h \in {BigPow5(k \div 2)} })

----------------------------------------------------------------------------
(* JavaScript numbers: binary doubles                                       *)

\* a finite number is sign * sig * 2^exp with sig odd, below 2^53, and exp
\* at least -1074 (or sig zero and exp 0: the two zeros); its value is held
\* exactly, and every operation rounds its exact result to the nearest such
\* number, to the one with the even significand if two are equally near
Finite(sign, sig, exp) == [class |-> "finite", sign |-> sign, sig |-> sig, exp |-> exp]

Zero(sign) == Finite(sign, <<>>, 0)

Infinite(sign) == [class |-> "infinite", sign |-> sign, sig |-> <<>>, exp |-> 0]

Infinity == Infinite(1)

NaN == [class |-> "nan", sign |-> 1, sig |-> <<>>, exp |-> 0]

isNaN(x) == Only({ a.class = "nan" : a \in {x} })

\* Infinity or -Infinity
IsInfinite(x) == Only({ a.class = "infinite" : a \in {x} })

\* 0 or -0
IsZero(x) == Only({ a.class = "finite" /\ a.sig = <<>> : a \in {x} })

\* sign * sig * 2^exp for sig < 2^53, with sig made odd
Canonical(sign, sig, exp) ==
    Only({ IF m = <<>> THEN Zero(sign)
           ELSE Only({ Finite(sign, BigShr(m, z), exp + z)
                       : z \in {TrailingZeros(m)} })
           : m \in {sig} })

\* the double nearest to sign * sig * 2^exp: the digits of sig below the
\* 53rd, and those of weight below 2^-1074, are rounded away, to the even
\* neighbour when they are exactly one half; 2^1024 and above is Infinity
Round(sign, sig, exp) ==
    Only({ Only({ IF BitLen(r) + e > 1024 THEN Infinite(sign)
                  ELSE Canonical(sign, r, e)
                  : e \in {IF drop > 0 THEN exp + drop ELSE exp},
                    r \in { IF drop <= 0 THEN m
                            ELSE Only({ IF Bit(m, drop - 1) = 1
                                           /\ (~LowBitsZero(m, drop - 1)
                                                  \/ Bit(kept, 0) = 1)
                                        THEN BigAdd(kept, <<1>>) ELSE kept
                                        : kept \in {BigShr(m, drop)} }) } })
           : m \in {sig},
             drop \in { Only({ IF len - 53 > -1074 - exp THEN len - 53 ELSE -1074 - exp
                               : len \in {BitLen(sig)} }) } })

\* the double nearest to sign * (num / den) * 2^exp, for num, den # 0.  The
\* quotient is taken to 56 binary digits at least, and one more digit tells
\* whether a remainder is left
RoundRatio(sign, num, den, exp) ==
    Only({ Only({ Round(sign,
                        BigAdd(BigShl(d.q, 1), IF d.r = <<>> THEN <<>> ELSE <<1>>),
                        exp - k - 1)
                  : d \in {BigDivMod(BigShl(n, k), den)} })
           : n \in {num},
             k \in { Only({ IF t > 0 THEN t ELSE 0
                            : t \in {56 + BitLen(den) - BitLen(num)} }) } })

\* the integer i as a number
I(i) == Canonical(IF i < 0 THEN -1 ELSE 1, FromInt(Abs(i)), 0)

\* -x
Negate(x) == Only({ [a EXCEPT !.sign = IF a.class = "nan" THEN 1 ELSE -a.sign] : a \in {x} })

\* -1, 0 or 1 as |a| < |b|, |a| = |b| or |a| > |b|, for finite a and b
CmpMagnitude(a, b) ==
    IF a.sig = <<>> \/ b.sig = <<>>
    THEN (IF a.sig = b.sig THEN 0 ELSE IF a.sig = <<>> THEN -1 ELSE 1)
    ELSE Only({ IF ta # tb THEN (IF ta < tb THEN -1 ELSE 1)
                ELSE IF a.exp >= b.exp
                     THEN BigCmp(BigShl(a.sig, a.exp - b.exp), b.sig)
                     ELSE BigCmp(a.sig, BigShl(b.sig, b.exp - a.exp))
                : ta \in {a.exp + BitLen(a.sig)}, tb \in {b.exp + BitLen(b.sig)} })

\* the sum of the numbers a and b, neither zero, where a lies more than 64
\* binary digits above b: a is written with 56 digits and b, too small to
\* be told from any other number of its sign, counts as one unit below them
PlusFar(a, b) ==
    Only({ Round(a.sign,
                 IF a.sign = b.sign THEN BigAdd(BigShl(a.sig, k), <<1>>)
                 ELSE BigSub(BigShl(a.sig, k), <<1>>),
                 a.exp - k)
           : k \in {56 - BitLen(a.sig)} })

\* the sum of the numbers a and b, neither zero, whose exponents have been
\* made equal: the exact sum, rounded; two numbers that cancel give +0
PlusNear(a, b) ==
    Only({ IF a.sign = b.sign THEN Round(a.sign, BigAdd(ma, mb), e)
           ELSE Only({ IF c = 0 THEN Zero(1)
                       ELSE IF c > 0 THEN Round(a.sign, BigSub(ma, mb), e)
                       ELSE Round(b.sign, BigSub(mb, ma), e)
                       : c \in {BigCmp(ma, mb)} })
           : e \in {IF a.exp < b.exp THEN a.exp ELSE b.exp},
             ma \in {BigShl(a.sig, IF a.exp < b.exp THEN 0 ELSE a.exp - b.exp)},
             mb \in {BigShl(b.sig, IF a.exp < b.exp THEN b.exp - a.exp ELSE 0)} })

\* the sum of the finite a and b.  Two zeros of opposite sign give +0
PlusFinite(a, b) ==
    IF a.sig = <<>> /\ b.sig = <<>> THEN Zero(IF a.sign = b.sign THEN a.sign ELSE 1)
    ELSE IF a.sig = <<>> THEN b
    ELSE IF b.sig = <<>> THEN a
    ELSE Only({ IF ta - tb > 64 THEN PlusFar(a, b)
                ELSE IF tb - ta > 64 THEN PlusFar(b, a)
                ELSE PlusNear(a, b)
                : ta \in {a.exp + BitLen(a.sig)}, tb \in {b.exp + BitLen(b.sig)} })

\* x + y
Plus(x, y) ==
    Only({ IF isNaN(a) \/ isNaN(b) THEN NaN
           ELSE IF IsInfinite(a)
                THEN IF IsInfinite(b) /\ b # a THEN NaN ELSE a
           ELSE IF IsInfinite(b) THEN b
           ELSE PlusFinite(a, b)
           : a \in {x}, b \in {y} })

\* x - y
Minus(x, y) == Plus(x, Negate(y))

\* x * y
Times(x, y) ==
    Only({ IF isNaN(a) \/ isNaN(b) THEN NaN
           ELSE IF IsInfinite(a) \/ IsInfinite(b)
                THEN IF IsZero(a) \/ IsZero(b) THEN NaN ELSE Infinite(a.sign * b.sign)
           ELSE Round(a.sign * b.sign, BigMul(a.sig, b.sig), a.exp + b.exp)
           : a \in {x}, b \in {y} })

\* x / y
Over(x, y) ==
    Only({ IF isNaN(a) \/ isNaN(b) THEN NaN
           ELSE IF IsInfinite(a)
                THEN IF IsInfinite(b) THEN NaN ELSE Infinite(a.sign * b.sign)
           ELSE IF IsInfinite(b) THEN Zero(a.sign * b.sign)
           ELSE IF IsZero(b)
                THEN IF IsZero(a) THEN NaN ELSE Infinite(a.sign * b.sign)
           ELSE IF IsZero(a) THEN Zero(a.sign * b.sign)
           ELSE RoundRatio(a.sign * b.sign, a.sig, b.sig, a.exp - b.exp)
           : a \in {x}, b \in {y} })

\* the number a numeric literal n/d written in decimal stands for: the
\* double nearest to it
Q(n, d) == Over(I(n), I(d))

\* -1, 0 or 1 as a < b, a = b or a > b, for a and b that are not NaN
Compare(a, b) ==
    IF IsInfinite(a) \/ IsInfinite(b)
    THEN (IF IsInfinite(a) /\ IsInfinite(b)
          THEN (IF a.sign = b.sign THEN 0 ELSE a.sign)
          ELSE IF IsInfinite(a) THEN a.sign ELSE -b.sign)
    ELSE IF IsZero(a) /\ IsZero(b) THEN 0
    ELSE IF IsZero(a) THEN -b.sign
    ELSE IF IsZero(b) THEN a.sign
    ELSE IF a.sign # b.sign THEN a.sign
    ELSE a.sign * CmpMagnitude(a, b)

\* x <= y
Leq(x, y) ==
    Only({ ~isNaN(a) /\ ~isNaN(b) /\ Compare(a, b) <= 0 : a \in {x}, b \in {y} })

\* x < y
Less(x, y) ==
    Only({ ~isNaN(a) /\ ~isNaN(b) /\ Compare(a, b) < 0 : a \in {x}, b \in {y} })

\* Math.abs
MathAbs(x) == Only({ [a EXCEPT !.sign = 1] : a \in {x} })

\* Math.sign: -1, -0, 0, 1 or NaN
MathSign(x) ==
    Only({ IF a.class = "nan" \/ IsZero(a) THEN a ELSE I(a.sign) : a \in {x} })

\* a plausible slip: the value is stored without the toFixed(2) rounding
NumberUnrounded(x) == x

\* the integer n for which n/100 - a is as close to zero as possible, the
\* larger one if there are two, for a finite a >= 0: 100 * sig * 2^exp
\* with its binary digits of weight below 1 rounded, one half upwards
Hundredths(a) ==
    Only({ IF a.exp >= 0 THEN BigShl(t, a.exp)
           ELSE BigShr(BigAdd(BigShr(t, -a.exp - 1), <<1>>), 1)
           : t \in {BigMul(a.sig, FromInt(100))} })

\* Number(x.toFixed(2)).  toFixed writes the digits of Hundredths, after a
\* "-" when x < 0 (so that a small negative x gives "-0.00", which reads as
\* -0, and -0 gives "0.00"); from 10^21 on it writes x as toString does, and
\* so do NaN and the infinities, and Number reads x back
NumberToFixed2(x) ==
    Only({ IF a.class # "finite" \/ Leq(Round(1, BigPow5(21), 21), MathAbs(a)) THEN a
           ELSE IF IsZero(a) THEN Zero(1)
           ELSE Only({ IF n = <<>> THEN Zero(a.sign)
                       ELSE RoundRatio(a.sign, n, FromInt(100), 0)
                       : n \in {Hundredths(a)} })
           : a \in {x} })

----------------------------------------------------------------------------
(* calculateMarketManipulator *)

minManipulator == Q(1, 10)
normalThreshold == 2
highThreshold == 5
extremeThreshold == 10

\* the branch taken for absChange <= normalThreshold
NormalTier(absChange) ==
    Plus(minManipulator,
         Times(Over(absChange, I(normalThreshold)),
               Minus(Q(15, 10), minManipulator)))

\* the branch taken for normalThreshold < absChange <= highThreshold
HighTier(absChange) ==
    Plus(Q(15, 10),
         Times(Over(Minus(absChange, I(normalThreshold)),
                    I(highThreshold - normalThreshold)),
               Q(15, 10)))

\* the branch taken for highThreshold < absChange <= extremeThreshold
ExtremeTier(absChange) ==
    Plus(I(3),
         Times(Over(Minus(absChange, I(highThreshold)),
                    I(extremeThreshold - highThreshold)),
               I(2)))

\* a plausible slip: strict comparisons at the tier boundaries
SelectTierStrict(absChange) ==
    Only({ IF Less(a, I(normalThreshold)) THEN "normal"
           ELSE IF Less(a, I(highThreshold)) THEN "high"
           ELSE IF Less(a, I(extremeThreshold)) THEN "extreme"
           ELSE "saturate"
           : a \in {absChange} })

\* which branch of the if / else-if chain is taken
SelectTier(absChange) ==
    Only({ IF Leq(a, I(normalThreshold)) THEN "normal"
           ELSE IF Leq(a, I(highThreshold)) THEN "high"
           ELSE IF Leq(a, I(extremeThreshold)) THEN "extreme"
           ELSE "saturate"
           : a \in {absChange} })

\* a plausible slip: the cap is not applied above extremeThreshold
TierValueUncapped(absChange) ==
    Only({ CASE tier = "normal" -> NormalTier(a)
             [] tier = "high" -> HighTier(a)
             [] OTHER -> ExtremeTier(a)
           : a \in {absChange}, tier \in {SelectTier(absChange)} })

\* the local `manipulator` after the if / else-if chain
TierValue(absChange) ==
    Only({ CASE tier = "normal" -> NormalTier(a)
             [] tier = "high" -> HighTier(a)
             [] tier = "extreme" -> ExtremeTier(a)
             [] OTHER -> I(5)
           : a \in {absChange}, tier \in {SelectTier(absChange)} })

\* the revision that discards the sign (main.js lines 784-813)
calculateMarketManipulatorUnsigned(x) == TierValue(MathAbs(x))

\* returns manipulator * sign
calculateMarketManipulator(x) ==
    Only({ Times(TierValue(absChange), sign)
           : sign \in {MathSign(x)}, absChange \in {MathAbs(x)} })

----------------------------------------------------------------------------
(* Specification of the manipulator function on a grid of inputs *)

NONE == [none |-> TRUE]

\* no entry point is involved: the store is empty and nothing is invoked
SystemUnused ==
    /\ realWorldCollection = <<>>
    /\ manipulatorCollection = <<>>
    /\ inGameCollection = <<>>
    /\ env = {}
    /\ orch = <<>>
    /\ overlapped = FALSE
    /\ scrape = NONE
    /\ market = NONE
    /\ seed = NONE

AverageInputs == { Q(n, d) : n \in -MaxNum..MaxNum, d \in 1..MaxDen }

InitManipulator ==
    /\ pc = "average"
    /\ averageChange \in AverageInputs
    /\ marketManipulator = NONE
    /\ manipulatorValue = NONE
    /\ symbols = <<>>
    /\ average = NONE
    /\ SystemUnused

\* main.js line 488: const marketManipulator = calculateMarketManipulator(average, logger)
CalculateManipulator ==
    /\ pc = "average"
    /\ marketManipulator' = calculateMarketManipulator(averageChange)
    /\ pc' = "manipulator"
    /\ UNCHANGED <<averageChange, manipulatorValue, symbols, average, systemVars>>

\* main.js lines 499 and 631: Number(marketManipulator.toFixed(2))
FormatManipulator ==
    /\ pc = "manipulator"
    /\ manipulatorValue' = NumberToFixed2(marketManipulator)
    /\ pc' = "formatted"
    /\ UNCHANGED <<averageChange, marketManipulator, symbols, average, systemVars>>

NextManipulator == CalculateManipulator \/ FormatManipulator

SpecManipulator == InitManipulator /\ [][NextManipulator]_vars

----------------------------------------------------------------------------
(* JavaScript values and strings *)

\* a property that is absent reads as undefined
UNDEFINED == [t |-> "undefined"]

\* a string value; chars is the sequence of its characters
Str(chars) == [t |-> "string", s |-> chars]

\* a number value
Num(x) == [t |-> "number", v |-> x]

\* a null entry of the documents array
NULL == [t |-> "null"]

\* a document with its price and change_percentage properties
Doc(price, cp) == [t |-> "object", price |-> price, change_percentage |-> cp]

typeof(v) == IF v.t = "null" THEN "object" ELSE v.t

Digits == <<"0", "1", "2", "3", "4", "5", "6", "7", "8", "9">>

IsDigit(c) == \E i \in 1..10 : Digits[i] = c

DigitValue(c) == (CHOOSE i \in 1..10 : Digits[i] = c) - 1

\* the characters that parseFloat trims: WhiteSpace and LineTerminator of
\* the language.  A character without an escape is written by its code point
WhiteSpaceChars ==
    { " ", "\t", "\n", "\r", "\f", "U+000B", "U+00A0", "U+FEFF", "U+1680",
      "U+2000", "U+2001", "U+2002", "U+2003", "U+2004", "U+2005", "U+2006",
      "U+2007", "U+2008", "U+2009", "U+200A", "U+2028", "U+2029", "U+202F",
      "U+205F", "U+3000" }

\* first index >= i of s that holds no white space (Len(s) + 1 if none)
RECURSIVE SkipWhite(_, _)
SkipWhite(s, i) ==
    IF i <= Len(s) /\ s[i] \in WhiteSpaceChars THEN SkipWhite(s, i + 1) ELSE i

\* first index >= i of s that holds no digit (Len(s) + 1 if none)
RECURSIVE DigitRun(_, _)
DigitRun(s, i) ==
    IF i <= Len(s) /\ IsDigit(s[i]) THEN DigitRun(s, i + 1) ELSE i

\* s holds the characters of word from index i on
StartsWith(s, i, word) ==
    /\ i + Len(word) - 1 <= Len(s)
    /\ SubSeq(s, i, i + Len(word) - 1) = word

InfinityWord == <<"I", "n", "f", "i", "n", "i", "t", "y">>

\* the decimal value of the digits s[i], ..., s[j-1], fewer than ten
RECURSIVE DigitsValue(_, _, _)
DigitsValue(s, i, j) ==
    IF i >= j THEN 0
    ELSE 10 * DigitsValue(s, i, j - 1) + DigitValue(s[j - 1])

\* the natural number written by the digits s[i], ..., s[j]
RECURSIVE DigitsBig(_, _, _)
DigitsBig(s, i, j) ==
    IF i > j THEN <<>>
    ELSE IF i = j THEN FromInt(DigitValue(s[i]))
    ELSE Only({ BigAdd(BigMul(DigitsBig(s, i, mid), BigShl(BigPow5(j - mid), j - mid)),
                       DigitsBig(s, mid + 1, j))
                : mid \in {(i + j) \div 2} })

\* s without its leading zeros
StripZeros(s) ==
    IF \A i \in 1..Len(s) : s[i] = "0" THEN <<>>
    ELSE SubSeq(s, CHOOSE i \in 1..Len(s) : s[i] # "0" /\ \A k \in 1..(i - 1) : s[k] = "0",
                Len(s))

\* the value of the exponent digits e; with an exponent of five digits
\* every literal is Infinity or 0 already, so a longer one counts as 99999
ExponentValue(e) ==
    Only({ IF Len(d) > 5 THEN 99999 ELSE DigitsValue(d, 1, Len(d) + 1)
           : d \in {StripZeros(e)} })

\* the double nearest to d * 10^p, for the natural d # 0
ScaleDecimal(d, p) ==
    IF p >= 0 THEN Round(1, BigMul(d, BigPow5(p)), p)
    ELSE RoundRatio(1, d, BigPow5(-p), p)

\* the double nearest to digits * 10^p, for the digit string digits without
\* leading zeros.  10^309 and above rounds to Infinity and what lies below
\* 10^-324 to 0, whatever the digits
DecimalToDouble(digits, p) ==
    Only({ IF n = 0 THEN Zero(1)
           ELSE IF p + n - 1 >= 309 THEN Infinity
           ELSE IF p + n <= -324 THEN Zero(1)
           ELSE ScaleDecimal(DigitsBig(digits, 1, n), p)
           : n \in {Len(digits)} })

\* the value of the decimal literal that starts at index i1 of s and whose
\* integer digits end before i2, fraction before i3, exponent before i6; NaN
\* when it has no digit
StrDecimalLiteral(s, i1, i2, i3, i6) ==
    LET hasDot == i3 > i2
        nInt == i2 - i1
        nFrac == IF hasDot THEN i3 - (i2 + 1) ELSE 0
        hasE == i6 > i3
        expSigned == hasE /\ s[i3 + 1] \in {"+", "-"}
        expNeg == expSigned /\ s[i3 + 1] = "-"
        i5 == IF expSigned THEN i3 + 2 ELSE i3 + 1
        exponent == IF hasE THEN ExponentValue(SubSeq(s, i5, i6 - 1)) ELSE 0
        digits == SubSeq(s, i1, i2 - 1)
                      \o (IF hasDot THEN SubSeq(s, i2 + 1, i3 - 1) ELSE <<>>)
    IN  IF nInt + nFrac = 0 THEN NaN
        ELSE DecimalToDouble(StripZeros(digits),
                             (IF expNeg THEN -exponent ELSE exponent) - nFrac)

\* the index after the fraction of a literal whose integer digits end before
\* i2: after the decimal point and the digits that follow it, if there
AfterFraction(s, i2) ==
    IF i2 <= Len(s) /\ s[i2] = "." THEN DigitRun(s, i2 + 1) ELSE i2

\* the index after the exponent part of a literal whose fraction ends
\* before i3: e or E, an optional sign and at least one digit, if there
AfterExponent(s, i3) ==
    IF i3 <= Len(s) /\ s[i3] \in {"e", "E"}
    THEN LET i5 == IF i3 + 1 <= Len(s) /\ s[i3 + 1] \in {"+", "-"}
                   THEN i3 + 2 ELSE i3 + 1
         IN  IF DigitRun(s, i5) > i5 THEN DigitRun(s, i5) ELSE i3
    ELSE i3

\* the magnitude parseFloat reads from index i1 of s, after the sign
Magnitude(s, i1) ==
    IF StartsWith(s, i1, InfinityWord) THEN Infinity
    ELSE Only({ Only({ Only({ StrDecimalLiteral(s, i1, i2, i3, i6)
                              : i6 \in {AfterExponent(s, i3)} })
                       : i3 \in {AfterFraction(s, i2)} })
                : i2 \in {DigitRun(s, i1)} })

\* parseFloat: white space, an optional sign, then the longest prefix that
\* is a decimal literal: "Infinity", or digits with at most one decimal
\* point and, when a digit follows it, an exponent part (e or E, an optional
\* sign, digits).  NaN when there is no such prefix; whatever follows the
\* prefix is ignored
parseFloat(s) ==
    Only({ IF i0 <= Len(str) /\ str[i0] = "-" THEN Negate(Magnitude(str, i0 + 1))
           ELSE IF i0 <= Len(str) /\ str[i0] = "+" THEN Magnitude(str, i0 + 1)
           ELSE Magnitude(str, i0)
           : str \in {s}, i0 \in {SkipWhite(s, 1)} })

\* s.replace(c, ''): s without the first occurrence of the character c
RECURSIVE ReplaceFirst(_, _)
ReplaceFirst(s, c) ==
    IF s = <<>> THEN <<>>
    ELSE IF Head(s) = c THEN Tail(s)
    ELSE <<Head(s)>> \o ReplaceFirst(Tail(s), c)

----------------------------------------------------------------------------
(* calculateAverageChange *)

\* the test of the outer if: the entry is an object whose price and
\* change_percentage are both strings
IsStringPair(symbol) ==
    /\ symbol # NULL
    /\ typeof(symbol.price) = "string"
    /\ typeof(symbol.change_percentage) = "string"

\* the body of the for loop for one entry: acc, holding totalChange and
\* validSymbols, after it
AverageStep(symbol, acc) ==
    IF IsStringPair(symbol)
    THEN
        Only({ IF ~isNaN(price) /\ ~isNaN(changePercentage)
               THEN [totalChange |-> Plus(acc.totalChange, changePercentage),
                     validSymbols |-> acc.validSymbols + 1]
               \* "Invalid numeric conversion" is thrown and caught: a warning
               ELSE acc
               : price \in {parseFloat(symbol.price.s)},
                 changePercentage \in
                     {parseFloat(ReplaceFirst(symbol.change_percentage.s, "%"))} })
    \* "Skipping invalid symbol data": a warning
    ELSE acc

\* the for loop over symbols[i..]
RECURSIVE AverageLoop(_, _, _)
AverageLoop(syms, i, acc) ==
    IF i > Len(syms) THEN acc
    ELSE Only({ AverageLoop(syms, i + 1, next) : next \in {AverageStep(syms[i], acc)} })

Return(x) == [kind |-> "return", value |-> x]

Throw(msg) == [kind |-> "throw", message |-> msg]

\* the revision of main.js lines 849-894: no valid document yields 0
calculateAverageChangeOrZero(syms) ==
    Only({ IF acc.validSymbols = 0
           THEN Return(I(0))
           ELSE Return(Over(acc.totalChange, I(acc.validSymbols)))
           : acc \in {AverageLoop(syms, 1, [totalChange |-> I(0), validSymbols |-> 0])} })

calculateAverageChange(syms) ==
    Only({ IF acc.validSymbols = 0
           THEN Throw("No valid symbols found for calculation")
           ELSE Return(Over(acc.totalChange, I(acc.validSymbols)))
           : acc \in {AverageLoop(syms, 1, [totalChange |-> I(0), validSymbols |-> 0])} })

----------------------------------------------------------------------------
(* Specification of the change aggregator on bounded document sequences *)

\* {price: "10", change_percentage: "-1.99%"}
DocDown == Doc(Str(<<"1", "0">>), Str(<<"-", "1", ".", "9", "9", "%">>))
\* {price: "20", change_percentage: "3.5"}
DocUp == Doc(Str(<<"2", "0">>), Str(<<"3", ".", "5">>))
\* {price: "5", change_percentage: "4%"}
DocFour == Doc(Str(<<"5">>), Str(<<"4", "%">>))
\* {price: "40.25", change_percentage: "6%"}
DocSix == Doc(Str(<<"4", "0", ".", "2", "5">>), Str(<<"6", "%">>))
\* {price: "15", change_percentage: "0.0000%"}: an unchanged quote
DocFlat == Doc(Str(<<"1", "5">>), Str(<<"0", ".", "0", "0", "0", "0", "%">>))
\* {price: "10"}
DocNoChange == Doc(Str(<<"1", "0">>), UNDEFINED)
\* {change_percentage: "4%"}
DocNoPrice == Doc(UNDEFINED, Str(<<"4", "%">>))
\* {price: "abc", change_percentage: "6%"}
DocBadPrice == Doc(Str(<<"a", "b", "c">>), Str(<<"6", "%">>))
\* {price: "30", change_percentage: "abc"}
DocBadChange == Doc(Str(<<"3", "0">>), Str(<<"a", "b", "c">>))
\* {price: "7", change_percentage: "%"}
DocBarePercent == Doc(Str(<<"7">>), Str(<<"%">>))
\* {price: 100, change_percentage: "2.5"}: the price is a number, not a string
DocNumberPrice == Doc(Num(I(100)), Str(<<"2", ".", "5">>))

\* {price: "\t10", change_percentage: "1e1%"}: white space and an exponent
DocExponent == Doc(Str(<<"\t", "1", "0">>), Str(<<"1", "e", "1", "%">>))
\* {price: "10", change_percentage: "Infinity"}
DocInfinity == Doc(Str(<<"1", "0">>), Str(InfinityWord))
\* {price: "10", change_percentage: "-Infinity%"}
DocMinusInfinity == Doc(Str(<<"1", "0">>), Str(<<"-">> \o InfinityWord \o <<"%">>))
\* {price: "12abc", change_percentage: "0%"}: text after a numeric prefix
DocPrefixPrice == Doc(Str(<<"1", "2", "a", "b", "c">>), Str(<<"0", "%">>))
\* {price: "30", change_percentage: "5%%"}: replace removes the first '%' only
DocDoublePercent == Doc(Str(<<"3", "0">>), Str(<<"5", "%", "%">>))
\* {price: "8", change_percentage: "1%2"}: a '%' that is not at the end
DocInnerPercent == Doc(Str(<<"8">>), Str(<<"1", "%", "2">>))

DocumentSamples ==
    { DocDown, DocUp, DocFour, DocSix, DocFlat, DocNoChange, DocNoPrice, DocBadPrice,
      DocBadChange, DocBarePercent, DocNumberPrice, DocExponent, DocInfinity,
      DocMinusInfinity, DocPrefixPrice, DocDoublePercent, DocInnerPercent, NULL }

SymbolInputs == UNION { [1..k -> DocumentSamples] : k \in 0..MaxDocs }

InitAverage ==
    /\ pc = "symbols"
    /\ symbols \in SymbolInputs
    /\ average = NONE
    /\ averageChange = NONE
    /\ marketManipulator = NONE
    /\ manipulatorValue = NONE
    /\ SystemUnused

\* main.js line 485: const average = calculateAverageChange(realWorldStockMarket, logger)
CalculateAverage ==
    /\ pc = "symbols"
    /\ average' = calculateAverageChange(symbols)
    /\ pc' = "averaged"
    /\ UNCHANGED <<symbols, averageChange, marketManipulator, manipulatorValue, systemVars>>

NextAverage == CalculateAverage

SpecAverage == InitAverage /\ [][NextAverage]_vars

----------------------------------------------------------------------------
(* Numbers as strings; documents of the store *)

\* the decimal digits of the natural number k
RECURSIVE IntToChars(_)
IntToChars(k) ==
    IF k < 10 THEN <<Digits[k + 1]>>
    ELSE IntToChars(k \div 10) \o <<Digits[(k % 10) + 1]>>

\* the four decimal digits of k < 10000
FourDigits(k) ==
    <<Digits[(k \div 1000) + 1], Digits[((k \div 100) % 10) + 1],
      Digits[((k \div 10) % 10) + 1], Digits[(k % 10) + 1]>>

\* the decimal digits of the natural number a # 0, four at a time
RECURSIVE BigToChars(_)
BigToChars(a) ==
    Only({ IF d.q = <<>> THEN IntToChars(Limb(d.r, 1))
           ELSE BigToChars(d.q) \o FourDigits(Limb(d.r, 1))
           : d \in {BigDivMod(a, <<10000>>)} })

\* -1, 0 or 1 as a * 2^s * 5^t is below, equal to or above b
CmpScaled(a, s, t, b) ==
    BigCmp(BigShl(BigMul(a, BigPow5(IF t > 0 THEN t ELSE 0)), IF s > 0 THEN s ELSE 0),
           BigShl(BigMul(b, BigPow5(IF t < 0 THEN -t ELSE 0)), IF s < 0 THEN -s ELSE 0))

\* the n with 10^(n-1) <= sig * 2^exp < 10^n, found next to the estimate
\* that the number of binary digits gives
DecimalExponent(sig, exp) ==
    Only({ CHOOSE n \in {n0 - 1, n0, n0 + 1} :
               /\ CmpScaled(sig, exp - (n - 1), -(n - 1), <<1>>) >= 0
               /\ CmpScaled(sig, exp - n, -n, <<1>>) < 0
           : n0 \in {(((BitLen(sig) + exp - 1) * 30103) \div 100000) + 1} })

\* the integer s nearest to x / 10^(n-k), for the number x = sig * 2^exp
\* above 0, and whether s * 10^(n-k) is x when read back.  Of the integers
\* on the two sides of the quotient the one that reads back as x is taken;
\* if both do, the nearer, and the even one if they are equally near
Candidate(x, sig, exp, n, k) ==
    Only({ Only({ Only({ IF lowOk /\ highOk
                         THEN [ok |-> TRUE,
                               s |-> IF half < 0 \/ (half = 0 /\ Limb(d.q, 1) % 2 = 0)
                                     THEN d.q ELSE BigAdd(d.q, <<1>>)]
                         ELSE IF lowOk THEN [ok |-> TRUE, s |-> d.q]
                         ELSE [ok |-> highOk, s |-> BigAdd(d.q, <<1>>)]
                         : lowOk \in {d.q # <<>> /\ ScaleDecimal(d.q, n - k) = x},
                           highOk \in {ScaleDecimal(BigAdd(d.q, <<1>>), n - k) = x},
                           half \in {BigCmp(BigShl(d.r, 1), den)} })
                  : d \in {BigDivMod(BigShl(BigMul(sig, BigPow5(IF k > n THEN k - n ELSE 0)),
                                            IF exp - n + k > 0 THEN exp - n + k ELSE 0),
                                     den)} })
           : den \in {BigShl(BigPow5(IF n > k THEN n - k ELSE 0),
                             IF n - k - exp > 0 THEN n - k - exp ELSE 0)} })

\* the least number of digits in lo..hi that reads back as x, given that hi
\* digits do; a number that k digits give back, k + 1 digits give back too
RECURSIVE ShortestLength(_, _, _, _, _, _)
ShortestLength(x, sig, exp, n, lo, hi) ==
    IF lo = hi THEN lo
    ELSE IF Candidate(x, sig, exp, n, (lo + hi) \div 2).ok
        THEN ShortestLength(x, sig, exp, n, lo, (lo + hi) \div 2)
    ELSE ShortestLength(x, sig, exp, n, ((lo + hi) \div 2) + 1, hi)

\* s without its trailing zeros, for s that is not all zeros
StripTrailingZeros(s) ==
    SubSeq(s, 1, CHOOSE i \in 1..Len(s) : s[i] # "0" /\ \A k \in (i + 1)..Len(s) : s[k] = "0")

\* the characters of 0.d1...dk * 10^n, as Number::toString lays them out
LayOut(digits, n) ==
    Only({ IF k <= n /\ n <= 21 THEN digits \o [i \in 1..(n - k) |-> "0"]
           ELSE IF 0 < n /\ n <= 21
               THEN SubSeq(digits, 1, n) \o <<".">> \o SubSeq(digits, n + 1, k)
           ELSE IF -6 < n /\ n <= 0
               THEN <<"0", ".">> \o [i \in 1..(-n) |-> "0"] \o digits
           ELSE <<digits[1]>> \o (IF k > 1 THEN <<".">> \o SubSeq(digits, 2, k) ELSE <<>>)
                    \o <<"e", IF n - 1 < 0 THEN "-" ELSE "+">> \o IntToChars(Abs(n - 1))
           : k \in {Len(digits)} })

\* Number.prototype.toString of the number x > 0; seventeen digits tell any
\* two doubles apart
PositiveToString(x) ==
    Only({ Only({ Only({ LayOut(StripTrailingZeros(chars), n - k + Len(chars))
                         : chars \in {BigToChars(Candidate(x, x.sig, x.exp, n, k).s)} })
                  : k \in {ShortestLength(x, x.sig, x.exp, n, 1, 17)} })
           : n \in {DecimalExponent(x.sig, x.exp)} })

\* Number.prototype.toString: the shortest decimal form that reads back as
\* the number; "NaN", "Infinity", "-Infinity", and "0" for both zeros
NumberToString(x) ==
    Only({ IF isNaN(a) THEN <<"N", "a", "N">>
           ELSE IF IsZero(a) THEN <<"0">>
           ELSE (IF a.sign < 0 THEN <<"-">> ELSE <<>>)
                    \o (IF IsInfinite(a) THEN InfinityWord ELSE PositiveToString(MathAbs(a)))
           : a \in {x} })

\* a response of an entry point: res.json(body, statusCode).  A call that
\* passes the body alone has UNDEFINED as its statusCode
Response(body, statusCode) == [body |-> body, statusCode |-> statusCode]

----------------------------------------------------------------------------
(* The market-update entry point (fetchStocks and its default export) *)

\* longest in-game collection of the market-update specification
MaxStocks == 2

\* a document of the in-game collection
Stock(ticker, price) ==
    [ticker_symbol |-> ticker, price |-> price, last_change |-> UNDEFINED]

\* {ticker_symbol: "APPX", price: "342.87"}
StockAppx == Stock("APPX", Str(<<"3", "4", "2", ".", "8", "7">>))
\* {ticker_symbol: "INTC", price: "53.42"}
StockIntc == Stock("INTC", Str(<<"5", "3", ".", "4", "2">>))
\* a stock priced 100
StockHundred == Stock("HNDY", Str(<<"1", "0", "0">>))
\* a stock whose price is not numeric
StockBadPrice == Stock("FOXZ", Str(<<"a", "b", "c">>))

StockSamples == { StockAppx, StockIntc, StockHundred, StockBadPrice }

\* a document of the manipulator collection
ManipulatorDocument(id, value) == [id |-> id, manipulator |-> value]

\* the manipulator values stored before the market update runs
StoredManipulatorSamples ==
    { Str(NumberToString(x)) : x \in { Q(25, 10), Q(-63, 100), I(5), Q(175, 100), I(0) } }

\* the `context` property of the argument the entry point is invoked with:
\* an object with a log function, no such property, or an object whose log
\* is no function
ContextSamples == {"logger", "undefined", "no log"}

\* context.log(...): it returns, or the call throws a TypeError
ContextLog(context) ==
    IF context = "logger" THEN Return(UNDEFINED)
    ELSE IF context = "undefined"
        THEN Throw("Cannot read properties of undefined (reading 'log')")
    ELSE Throw("context.log is not a function")

\* const response = await databases.listDocuments(...); return response.documents.
\* The catch block logs through context and re-throws the error of
\* listDocuments; a log call that throws replaces that error
fetchStocks(collection, storeOk, context) ==
    IF storeOk THEN Return(collection)
    ELSE IF ContextLog(context).kind = "throw" THEN ContextLog(context)
    ELSE Throw("store error")

InitMarket ==
    /\ pc = "system"
    /\ averageChange = NONE
    /\ marketManipulator = NONE
    /\ manipulatorValue = NONE
    /\ symbols = <<>>
    /\ average = NONE
    /\ realWorldCollection = <<>>
    /\ manipulatorCollection \in
           { <<ManipulatorDocument(1, v)>> : v \in StoredManipulatorSamples }
    /\ inGameCollection \in UNION { [1..k -> StockSamples] : k \in 0..MaxStocks }
    /\ env = {}
    /\ orch = <<>>
    /\ overlapped = FALSE
    /\ scrape = NONE
    /\ \E context \in ContextSamples :
           market = [pc |-> "invoked", context |-> context, response |-> NONE,
                     rejection |-> NONE]
    /\ seed = NONE

\* the default export: fetch the stocks and return them; the steps that would
\* read the manipulator, apply it and update the stocks are placeholders.
\* Its catch block logs through context before it responds: when that call
\* throws, the promise of the invocation is rejected and nothing is sent.
\* The success response (lines 24-27) is sent without a status code, the
\* failure response (lines 30-33) with 500
UpdateMarket ==
    /\ market.pc = "invoked"
    /\ \E storeOk \in BOOLEAN :
           LET inGameStocks == fetchStocks(inGameCollection, storeOk, market.context)
           IN  market' =
                   IF inGameStocks.kind = "return"
                   THEN [market EXCEPT
                            !.pc = "responded",
                            !.response = Response([success |-> TRUE,
                                                   stocks |-> inGameStocks.value],
                                                  UNDEFINED)]
                   ELSE IF ContextLog(market.context).kind = "throw"
                   THEN [market EXCEPT
                            !.pc = "rejected",
                            !.rejection = ContextLog(market.context).message]
                   ELSE [market EXCEPT
                            !.pc = "responded",
                            !.response = Response([success |-> FALSE,
                                                   error |-> inGameStocks.message], 500)]
    /\ UNCHANGED <<pureVars, realWorldCollection, manipulatorCollection,
                   inGameCollection, env, orch, overlapped, scrape, seed>>

NextMarket == UpdateMarket

SpecMarket == InitMarket /\ [][NextMarket]_vars

----------------------------------------------------------------------------
(* The manipulator orchestrator (main.js lines 452-512 and 559-673) *)

\* number of invocations of the orchestrator that may be in progress at once
MaxInvocations == 2
\* longest real-world collection of the orchestrator specification
MaxStored == 2

Invocations == 1..MaxInvocations

\* the real-world documents the orchestrator specification draws from
StoredSamples == { DocDown, DocSix, DocNoChange }

\* the real-world collections the orchestrator specification starts from
StoredCollections == UNION { [1..k -> StoredSamples] : k \in 0..MaxStored }

\* list of one store operation issued: its name and the collection it targets
StoreOp(name, collection) == [op |-> name, collection |-> collection]

\* fetchRealWorldStockMarket: response.documents, or the error re-thrown
fetchRealWorldStockMarket(collection, storeOk) ==
    IF storeOk THEN Return(collection) ELSE Throw("store error")

\* a plausible slip (the first revision, lines 18-61 and 120-131): a failed
\* read yields [], an empty result is not rejected and an average is
\* produced even when no document is valid
StagesBeforePersistUnchecked(fetched) ==
    LET realWorldStockMarket ==
            IF fetched.kind = "throw" THEN <<>> ELSE fetched.value
    IN  Only({ Return([realWorldStockMarket |-> realWorldStockMarket,
                       average |-> avg.value,
                       marketManipulator |-> calculateMarketManipulator(avg.value)])
               : avg \in {calculateAverageChangeOrZero(realWorldStockMarket)} })

\* lines 479-488 of the default export: what the stages before
\* updateManipulatorCollection yield, or the error they throw
StagesBeforePersist(fetched) ==
    IF fetched.kind = "throw" THEN fetched
    ELSE IF Len(fetched.value) = 0 THEN Throw("No stock market data available")
    ELSE
        Only({ IF avg.kind = "throw" THEN avg
               ELSE Return([realWorldStockMarket |-> fetched.value,
                            average |-> avg.value,
                            marketManipulator |-> calculateMarketManipulator(avg.value)])
               : avg \in {calculateAverageChange(fetched.value)} })

\* The stages are a function of the documents read and of nothing else, so
\* their result for each collection of the specification is evaluated once
\* and an invocation looks the result up; so are the conversions of the
\* numbers they yield, below.
StagesTable ==
    [c \in StoredCollections |-> StagesBeforePersist(Return(c))] @@ <<>>

\* StagesBeforePersist(fetched), read from the table where the table has it
StagesOf(fetched) ==
    IF fetched.kind = "return" /\ fetched.value \in DOMAIN StagesTable
    THEN StagesTable[fetched.value]
    ELSE StagesBeforePersist(fetched)

\* the averages and manipulators the stages yield in the specification
StagedResults ==
    { StagesTable[c].value :
        c \in { d \in StoredCollections : StagesTable[d].kind = "return" } }

\* a plausible slip: a document is created whatever the list returned
WriteBranchAlwaysCreate(existingDocuments) == "create"

\* line 641: existingDocuments.documents.length > 0
WriteBranch(existingDocuments) ==
    IF Len(existingDocuments) > 0 THEN "update" ELSE "create"

\* a plausible repair that the code does not have: a fixed document
\* identifier, so that a second create replaces the first document
createDocumentFixedId(collection, data) ==
    IF collection = <<>> THEN <<[id |-> 1] @@ data>>
    ELSE [collection EXCEPT ![1] = [id |-> 1] @@ data]

\* databases.createDocument(..., 'unique()', data): a new document is added
createDocument(collection, data) ==
    Append(collection, [id |-> Len(collection) + 1] @@ data)

\* databases.updateDocument(..., docId, data): the fields of data replace
\* those of the document with that identifier
updateDocument(collection, docId, data) ==
    [k \in 1..Len(collection) |->
        IF collection[k].id = docId
        THEN [f \in DOMAIN collection[k] \cup DOMAIN data |->
                 IF f \in DOMAIN data THEN data[f] ELSE collection[k][f]]
        ELSE collection[k]]

\* lines 648-651 and 660-663: the data written by updateManipulatorCollection
ManipulatorData(marketManipulatorArg) ==
    [manipulator |-> Str(NumberToString(NumberToFixed2(marketManipulatorArg)))]

ManipulatorDataTable ==
    [m \in { r.marketManipulator : r \in StagedResults } |-> ManipulatorData(m)]
        @@ <<>>

\* ManipulatorData(m), read from the table where the table has it
ManipulatorDataOf(m) ==
    IF m \in DOMAIN ManipulatorDataTable THEN ManipulatorDataTable[m]
    ELSE ManipulatorData(m)

\* lines 497-501: the success response
OrchestratorSuccess(marketManipulatorArg, averageArg) ==
    Response([success |-> TRUE,
              manipulator |-> NumberToFixed2(marketManipulatorArg),
              average_change |-> NumberToFixed2(averageArg)], 200)

OrchestratorSuccessTable ==
    [p \in { <<r.marketManipulator, r.average>> : r \in StagedResults } |->
        OrchestratorSuccess(p[1], p[2])] @@ <<>>

\* OrchestratorSuccess(m, a), read from the table where the table has it
OrchestratorSuccessOf(m, a) ==
    IF <<m, a>> \in DOMAIN OrchestratorSuccessTable
    THEN OrchestratorSuccessTable[<<m, a>>]
    ELSE OrchestratorSuccess(m, a)

\* lines 507-510: the error response
OrchestratorFailure(message) ==
    Response([success |-> FALSE, error |-> message], 500)

\* a plausible slip (the first revision's updatesManipulatorCollection,
\* lines 176-221): the catch returns false instead of throwing
PersistOutcomeSwallowed(storeOk) == Return(storeOk)

\* lines 668-671: updateManipulatorCollection returns true, or re-throws the
\* error of the store operation that failed
PersistOutcome(storeOk) == IF storeOk THEN Return(TRUE) ELSE Throw("store error")

\* lines 490-511: the response after updateManipulatorCollection
PersistResponse(outcome, marketManipulatorArg, averageArg) ==
    IF outcome.kind = "throw" THEN OrchestratorFailure(outcome.message)
    ELSE OrchestratorSuccessOf(marketManipulatorArg, averageArg)

\* the locals of an invocation that is not running; fetchOk and persistOk
\* record whether a store operation of the read, or of the persist stage,
\* has thrown
OrchestratorIdle ==
    [pc |-> "idle", realWorldStockMarket |-> NONE, average |-> NONE,
     marketManipulator |-> NONE, existingDocuments |-> NONE, response |-> NONE,
     fetchOk |-> TRUE, persistOk |-> TRUE, ops |-> <<>>]

OrchestratorRunning(i) == orch[i].pc \in {"fetch", "list", "write"}

InitOrchestrator ==
    /\ pc = "system"
    /\ averageChange = NONE
    /\ marketManipulator = NONE
    /\ manipulatorValue = NONE
    /\ symbols = <<>>
    /\ average = NONE
    /\ realWorldCollection \in StoredCollections
    /\ manipulatorCollection = <<>>
    /\ inGameCollection = <<>>
    /\ env = {}
    /\ orch = [i \in Invocations |-> OrchestratorIdle]
    /\ overlapped = FALSE
    /\ scrape = NONE
    /\ market = NONE
    /\ seed = NONE

orchestratorFrame ==
    <<pureVars, realWorldCollection, inGameCollection, env, scrape, market, seed>>

\* the platform invokes the default export; it runs up to its first await
InvokeOrchestrator(i) ==
    /\ ~OrchestratorRunning(i)
    /\ orch' = [orch EXCEPT ![i] =
                   [OrchestratorIdle EXCEPT !.pc = "fetch"]]
    /\ overlapped' = (overlapped \/ \E j \in Invocations \ {i} : OrchestratorRunning(j))
    /\ UNCHANGED <<orchestratorFrame, manipulatorCollection>>

\* lines 479-491: the read of the real-world collection completes; the
\* invocation runs on to the listDocuments of updateManipulatorCollection, or
\* to the error response
FetchRealWorld(i) ==
    /\ orch[i].pc = "fetch"
    /\ \E storeOk \in BOOLEAN :
       \E fetched \in {fetchRealWorldStockMarket(realWorldCollection, storeOk)} :
       \E staged \in {StagesOf(fetched)} :
           LET ops == Append(orch[i].ops, StoreOp("listDocuments", "realWorld"))
           IN  orch' = [orch EXCEPT ![i] =
                   IF staged.kind = "throw"
                   THEN [@ EXCEPT !.pc = "responded",
                                  !.fetchOk = storeOk,
                                  !.realWorldStockMarket =
                                      IF storeOk THEN fetched.value ELSE NONE,
                                  !.ops = ops,
                                  !.response = OrchestratorFailure(staged.message)]
                   ELSE [@ EXCEPT !.pc = "list",
                                  !.fetchOk = storeOk,
                                  !.realWorldStockMarket = staged.value.realWorldStockMarket,
                                  !.average = staged.value.average,
                                  !.marketManipulator = staged.value.marketManipulator,
                                  !.ops = ops]]
    /\ UNCHANGED <<orchestratorFrame, manipulatorCollection, overlapped>>

\* lines 636-641: the list of the manipulator collection completes
ListManipulator(i) ==
    /\ orch[i].pc = "list"
    /\ \E storeOk \in BOOLEAN :
           LET ops == Append(orch[i].ops, StoreOp("listDocuments", "manipulator"))
           IN  orch' = [orch EXCEPT ![i] =
                   IF storeOk
                   THEN [@ EXCEPT !.pc = "write",
                                  !.existingDocuments = manipulatorCollection,
                                  !.ops = ops]
                   ELSE [@ EXCEPT !.pc = "responded",
                                  !.persistOk = FALSE,
                                  !.ops = ops,
                                  !.response = PersistResponse(PersistOutcome(storeOk),
                                                               orch[i].marketManipulator,
                                                               orch[i].average)]]
    /\ UNCHANGED <<orchestratorFrame, manipulatorCollection, overlapped>>

\* lines 641-668 and 493-511: the update or the create completes and the
\* invocation responds
WriteManipulator(i) ==
    /\ orch[i].pc = "write"
    /\ \E storeOk \in BOOLEAN :
           LET branch == WriteBranch(orch[i].existingDocuments)
               data == ManipulatorDataOf(orch[i].marketManipulator)
               op == IF branch = "update" THEN "updateDocument" ELSE "createDocument"
           IN  /\ manipulatorCollection' =
                      IF ~storeOk THEN manipulatorCollection
                      ELSE IF branch = "update"
                          THEN updateDocument(manipulatorCollection,
                                              orch[i].existingDocuments[1].id, data)
                      ELSE createDocument(manipulatorCollection, data)
               /\ orch' = [orch EXCEPT ![i] =
                      [@ EXCEPT !.pc = "responded",
                                !.ops = Append(@, StoreOp(op, "manipulator")),
                                !.persistOk = storeOk,
                                !.response = PersistResponse(PersistOutcome(storeOk),
                                                             orch[i].marketManipulator,
                                                             orch[i].average)]]
    /\ UNCHANGED <<orchestratorFrame, overlapped>>

NextOrchestrator ==
    \E i \in Invocations :
        \/ InvokeOrchestrator(i)
        \/ FetchRealWorld(i)
        \/ ListManipulator(i)
        \/ WriteManipulator(i)

SpecOrchestrator == InitOrchestrator /\ [][NextOrchestrator]_vars

----------------------------------------------------------------------------
(* The real-world scraper (FetchesRealWorldStocks/src/main.js, lines 1-270) *)
(* and its revision with the mock fallback (src/unnamed/part_001)           *)

\* number of catalog entries the scraper specification iterates over
CatalogSize == 3
\* number of runs in one behaviour: invocations of the sequential scraper,
\* processETF calls for one record
MaxRuns == 2
\* longest input of processETFs in the persist specification
MaxEtfs == 6

\* CONFIG.POPULAR_ETFS: the tickers, in catalog order
POPULAR_ETFS ==
    <<"SPY", "QQQ", "IVV", "VTI", "VOO", "GLD", "EFA", "VEA", "BND", "VWO",
      "XLF", "XLK", "ARKK", "LQD", "TLT">>

\* the catalog the scraper specification iterates over: a prefix of POPULAR_ETFS
Catalog == SubSeq(POPULAR_ETFS, 1, CatalogSize)

\* number of catalog entries the fallback specification iterates over
MockCatalogSize == 5

\* the catalog the fallback specification iterates over
MockCatalog == SubSeq(POPULAR_ETFS, 1, MockCatalogSize)

\* requiredEnvVars, in the order they are validated
requiredEnvVars ==
    <<"APPWRITE_FUNCTION_API_ENDPOINT", "APPWRITE_FUNCTION_PROJECT_ID",
      "STOCK_API_KEY", "STOCK_DATABASE_ID", "STOCK_COLLECTION_ID">>

\* const batchSize = 5
batchSize == 5

\* String.prototype.includes: searchString occurs in message as a run of
\* consecutive characters; the empty string occurs in every string
Includes(message, searchString) ==
    \E i \in 0..(Len(message) - Len(searchString)) :
        SubSeq(message, i + 1, i + Len(searchString)) = searchString

\* the characters of the tickers and of the names of the environment
\* variables, which the messages are put together from
Spelling ==
    [
      SPY |-> <<"S", "P", "Y">>,
      QQQ |-> <<"Q", "Q", "Q">>,
      IVV |-> <<"I", "V", "V">>,
      VTI |-> <<"V", "T", "I">>,
      VOO |-> <<"V", "O", "O">>,
      GLD |-> <<"G", "L", "D">>,
      EFA |-> <<"E", "F", "A">>,
      VEA |-> <<"V", "E", "A">>,
      BND |-> <<"B", "N", "D">>,
      VWO |-> <<"V", "W", "O">>,
      XLF |-> <<"X", "L", "F">>,
      XLK |-> <<"X", "L", "K">>,
      ARKK |-> <<"A", "R", "K", "K">>,
      LQD |-> <<"L", "Q", "D">>,
      TLT |-> <<"T", "L", "T">>,
      APPWRITE_FUNCTION_API_ENDPOINT |-> <<"A", "P", "P", "W", "R", "I", "T",
          "E", "_", "F", "U", "N", "C", "T", "I", "O", "N", "_", "A", "P",
          "I", "_", "E", "N", "D", "P", "O", "I", "N", "T">>,
      APPWRITE_FUNCTION_PROJECT_ID |-> <<"A", "P", "P", "W", "R", "I", "T",
          "E", "_", "F", "U", "N", "C", "T", "I", "O", "N", "_", "P", "R",
          "O", "J", "E", "C", "T", "_", "I", "D">>,
      STOCK_API_KEY |-> <<"S", "T", "O", "C", "K", "_", "A", "P", "I", "_",
          "K", "E", "Y">>,
      STOCK_DATABASE_ID |-> <<"S", "T", "O", "C", "K", "_", "D", "A", "T",
          "A", "B", "A", "S", "E", "_", "I", "D">>,
      STOCK_COLLECTION_ID |-> <<"S", "T", "O", "C", "K", "_", "C", "O", "L",
          "L", "E", "C", "T", "I", "O", "N", "_", "I", "D">>
    ]

Chars(name) == Spelling[name]

\* 'AlphaVantage API error'
ApiErrorText ==
    <<"A", "l", "p", "h", "a", "V", "a", "n", "t", "a", "g", "e", " ", "A",
      "P", "I", " ", "e", "r", "r", "o", "r">>

\* 'Missing required environment variable'
MissingEnvText ==
    <<"M", "i", "s", "s", "i", "n", "g", " ", "r", "e", "q", "u", "i", "r",
      "e", "d", " ", "e", "n", "v", "i", "r", "o", "n", "m", "e", "n", "t",
      " ", "v", "a", "r", "i", "a", "b", "l", "e">>

\* 'Invalid data structure received from AlphaVantage for '
InvalidDataText ==
    <<"I", "n", "v", "a", "l", "i", "d", " ", "d", "a", "t", "a", " ", "s",
      "t", "r", "u", "c", "t", "u", "r", "e", " ", "r", "e", "c", "e", "i",
      "v", "e", "d", " ", "f", "r", "o", "m", " ", "A", "l", "p", "h", "a",
      "V", "a", "n", "t", "a", "g", "e", " ", "f", "o", "r", " ">>

\* the body of a rate-limited answer, as response.text() reads it
TooManyRequestsText ==
    <<"T", "o", "o", " ", "M", "a", "n", "y", " ", "R", "e", "q", "u", "e",
      "s", "t", "s">>

\* 'AlphaVantage API request for '
RequestForText ==
    <<"A", "l", "p", "h", "a", "V", "a", "n", "t", "a", "g", "e", " ", "A",
      "P", "I", " ", "r", "e", "q", "u", "e", "s", "t", " ", "f", "o", "r", " ">>

\* ' timed out after 10000ms', with CONFIG.ALPHA_VANTAGE.TIMEOUT_MS of line 16
TimedOutText ==
    <<" ", "t", "i", "m", "e", "d", " ", "o", "u", "t", " ", "a", "f", "t",
      "e", "r", " ", "1", "0", "0", "0", "0", "m", "s">>

\* the message of the TypeError with which fetch rejects when the request
\* does not get through
FetchFailedText == <<"f", "e", "t", "c", "h", " ", "f", "a", "i", "l", "e", "d">>

\* the message of the SyntaxError with which response.json() rejects on an
\* empty body; a body that is some other text that is no JSON gives another
\* message, which takes the same way through the program
NotJsonText ==
    <<"U", "n", "e", "x", "p", "e", "c", "t", "e", "d", " ", "e", "n", "d",
      " ", "o", "f", " ", "J", "S", "O", "N", " ", "i", "n", "p", "u", "t">>

\* the message of the TypeError with which the read of a body rejects when
\* the connection breaks off
TerminatedText == <<"t", "e", "r", "m", "i", "n", "a", "t", "e", "d">>

\* what `await fetch(...)` of line 62 settles to: a response with its
\* status, a rejection, or the abort that the timer of line 59 causes after
\* 10 s without a response
Responded(status) == [kind |-> "response", status |-> status]
Rejected == [kind |-> "rejected", status |-> 0]
Aborted == [kind |-> "aborted", status |-> 0]
FetchOutcomes == { Responded(200), Responded(429), Rejected, Aborted }

\* the 'Global Quote' entry of a quote body, and {} in its place: an entry
\* that is there and every field of which is undefined
GlobalQuote == [price |-> Str(<<"1", "0">>),
                change_percent |-> Str(<<"-", "1", ".", "9", "9", "%">>)]
EmptyQuote == [price |-> UNDEFINED, change_percent |-> UNDEFINED]

\* the values response.json() yields: an object with a 'Global Quote' entry,
\* an object without one, null
QuoteData(quote) == [t |-> "object", hasQuote |-> TRUE, quote |-> quote]
NoQuoteData == [t |-> "object", hasQuote |-> FALSE, quote |-> NONE]

\* what the read of the body settles to: the value of response.json() (line
\* 75), the text of response.text() (line 71), or a rejection: the body is
\* no JSON text, or the connection broke off
JsonBody(data) == [kind |-> "json", data |-> data]
TextBody(text) == [kind |-> "text", text |-> text]
NotJson == [kind |-> "not json"]
Terminated == [kind |-> "terminated"]

\* the body outcomes of a response: line 71 reads the body of a response
\* that is not ok as text, and line 75 the body of one that is ok as JSON
ResponseOk(settled) == settled.status >= 200 /\ settled.status <= 299

BodyOutcomes(settled) ==
    IF ResponseOk(settled)
    THEN { JsonBody(QuoteData(GlobalQuote)), JsonBody(QuoteData(EmptyQuote)),
           JsonBody(NoQuoteData), JsonBody(NULL), NotJson, Terminated }
    ELSE { TextBody(TooManyRequestsText), Terminated }

\* `AlphaVantage API error for ${symbol}: ${response.status} - ${errorText}`
ApiErrorMessage(symbol, status, errorText) ==
    ApiErrorText \o <<" ", "f", "o", "r", " ">> \o Chars(symbol) \o <<":", " ">>
        \o IntToChars(status) \o <<" ", "-", " ">> \o errorText

\* `Invalid data structure received from AlphaVantage for ${symbol}`
InvalidDataMessage(symbol) == InvalidDataText \o Chars(symbol)

\* `AlphaVantage API request for ${symbol} timed out after ${TIMEOUT_MS}ms`
TimedOutMessage(symbol) == RequestForText \o Chars(symbol) \o TimedOutText

\* `Missing required environment variable: ${envVar}`
MissingEnvMessage(envVar) == MissingEnvText \o <<":", " ">> \o Chars(envVar)

\* !data || !data['Global Quote'] (line 78)
NoGlobalQuote(data) == data = NULL \/ ~data.hasQuote

\* fetchETFData (lines 50-89), given what its fetch settled to and, for a
\* response, what the read of its body settled to: the 'Global Quote'
\* returned or the error thrown.  An abort is rethrown as the time-out error
\* (lines 84-86), every other rejection as it is (line 87)
fetchETFData(symbol, settled, body) ==
    IF settled.kind = "aborted" THEN Throw(TimedOutMessage(symbol))
    ELSE IF settled.kind = "rejected" THEN Throw(FetchFailedText)
    ELSE IF body.kind = "terminated" THEN Throw(TerminatedText)
    ELSE IF ~ResponseOk(settled)
    THEN Throw(ApiErrorMessage(symbol, settled.status, body.text))
    ELSE IF body.kind = "not json" THEN Throw(NotJsonText)
    ELSE IF NoGlobalQuote(body.data) THEN Throw(InvalidDataMessage(symbol))
    ELSE Return(body.data.quote)

\* quotes that MOCK_DATA.generateQuote (part_001, lines 40-64) can return:
\* the price is a random amount with two decimals, the change a random
\* percentage in [-3, 3]
MockQuoteDown == [price |-> Str(<<"1", "2", "3", ".", "4", "5">>),
                  change_percent |-> Str(<<"-", "1", ".", "5", "0", "%">>)]
MockQuoteFlat == [price |-> Str(<<"5", "0", ".", "0", "0">>),
                  change_percent |-> Str(<<"0", ".", "0", "0", "%">>)]
MockQuotes == { MockQuoteDown, MockQuoteFlat }

\* fetchETFData of the revision with the mock fallback (part_001, lines
\* 79-125): the mock quote when asked for it; otherwise as above, but a
\* 'Global Quote' entry without keys is rejected like a missing one (line
\* 112)
fetchETFDataOrMock(symbol, settled, body, useMockData, mockQuote) ==
    IF useMockData THEN Return(mockQuote)
    ELSE IF /\ settled.kind = "response" /\ ResponseOk(settled)
            /\ body.kind = "json" /\ ~NoGlobalQuote(body.data)
            /\ body.data.quote = EmptyQuote
    THEN Throw(InvalidDataMessage(symbol))
    ELSE fetchETFData(symbol, settled, body)

\* the record fetchAllPopularETFs pushes on results
EtfRecord(ticker, quoteData) ==
    [ticker |-> ticker, price |-> quoteData.price,
     change_percentage |-> quoteData.change_percent]

\* createDocumentData
createDocumentData(etf) ==
    [ticker_symbol |-> etf.ticker, price |-> etf.price,
     change_percentage |-> etf.change_percentage]

\* a plausible slip: the per-symbol failure ends the loop
NextCatalogIndexStopping(index, fetched) ==
    IF fetched.kind = "throw" THEN Len(POPULAR_ETFS) + 1 ELSE index + 1

\* the for ... of loop of fetchAllPopularETFs goes on to the next entry
\* whether the fetch threw or not
NextCatalogIndex(index, fetched) == index + 1

\* a plausible slip: the error of the recovered ticker stays in the list
ErrorsAfterRecoveryKept(errors) == errors

\* errors.pop() (part_001, line 188)
ErrorsAfterRecovery(errors) == SubSeq(errors, 1, Len(errors) - 1)

\* a plausible slip: every remaining record is started at once
BatchUnbounded(etfs, start) == { k \in 1..Len(etfs) : k > start }

\* etfs.slice(i, i + batchSize): the positions of the batch that starts after
\* position start of etfs
Batch(etfs, start) ==
    { k \in 1..Len(etfs) : k > start /\ k <= start + batchSize }

\* a plausible slip: the query names an attribute no document has
listByTickerNone(collection, ticker) == <<>>

\* listDocuments with Query.equal('ticker_symbol', etf.ticker)
listByTicker(collection, ticker) ==
    SelectSeq(collection, LAMBDA d : d.ticker_symbol = ticker)

\* a plausible slip: every error is answered as a server error
StatusCodeServerError(message) == 500

\* lines 255-261: the status code of the error response
StatusCodeFor(message) ==
    IF Includes(message, ApiErrorText) /\ Includes(message, <<"4", "2", "9">>)
    THEN 429
    ELSE IF Includes(message, MissingEnvText) THEN 400
    ELSE 500

\* lines 208-220: the required variables that are not set, in the order of
\* the validation loop, which throws at the first of them
MissingEnvVars(defined) ==
    SelectSeq(requiredEnvVars, LAMBDA name : name \notin defined)

\* lines 263-268: the error response
ScraperFailure(message) ==
    Response([success |-> FALSE, error |-> message], StatusCodeFor(message))

\* lines 234-249: the success response; res.json is called without a status
\* code
ScraperSuccess(catalog, etfs, errors, processResults) ==
    Response([success |-> TRUE,
              details |-> [total_attempted |-> Len(catalog),
                           total_fetched |-> Len(etfs),
                           fetch_errors |-> Len(errors),
                           created |-> processResults.created,
                           updated |-> processResults.updated,
                           failed |-> processResults.failed],
              fetch_errors |-> errors], UNDEFINED)

\* a plausible slip: the catch of processETF does not count the failure
TallyWithoutFailed(processResults, outcome) ==
    IF outcome = "failed" THEN processResults
    ELSE [processResults EXCEPT ![outcome] = @ + 1]

\* results.created++, results.updated++ or results.failed++
Tally(processResults, outcome) == [processResults EXCEPT ![outcome] = @ + 1]

\* the locals of a scraper invocation before it starts.  revision tells
\* which fetchAllPopularETFs runs: "catalog" (main.js, lines 92-128) or
\* "fallback" (part_001, lines 128-197, with the mock fallback); the rest of
\* the program is the same in both.  catalog is CONFIG.POPULAR_ETFS.  pc is
\* the await the invocation is suspended at: "fetch" (the fetch of a quote
\* request), "body" (the read of the body of its response), "sleep" (the
\* 1.2 s delay), "process" (store operations of a batch are pending),
\* "pause" (the 100 ms delay between batches).  requests lists the quote
\* requests sent, with what the fetch and the read of the body settled to
\* (NONE while pending, and for a body that is never read); waited tells
\* whether the iteration under way began with the delay; log has one entry
\* per iteration done: whether a real request was sent, whether it failed,
\* whether the record pushed came from MOCK_DATA, whether the delay preceded
\* it.  storeOps counts the store operations issued; listing and writing
\* hold the records whose listDocuments, or whose update or create, is
\* pending; done and threw hold the records finished and those whose
\* operation threw; delays counts the sleep(100) started
ScraperIdle ==
    [pc |-> "idle", revision |-> "catalog", catalog |-> Catalog, index |-> 1,
     results |-> <<>>, errors |-> <<>>, requests |-> <<>>, waited |-> FALSE,
     apiFailureCount |-> 0, log |-> <<>>,
     storeOps |-> [list |-> 0, create |-> 0, update |-> 0],
     start |-> 0, listing |-> {}, writing |-> {}, done |-> {}, threw |-> {},
     delays |-> 0,
     processResults |-> [created |-> 0, updated |-> 0, failed |-> 0],
     response |-> NONE]

scraperFrame ==
    <<pureVars, manipulatorCollection, inGameCollection, env, orch, overlapped, market,
      seed>>

InitScraper ==
    /\ pc = "system"
    /\ averageChange = NONE
    /\ marketManipulator = NONE
    /\ manipulatorValue = NONE
    /\ symbols = <<>>
    /\ average = NONE
    /\ realWorldCollection = <<>>
    /\ manipulatorCollection = <<>>
    /\ inGameCollection = <<>>
    /\ env \in SUBSET { requiredEnvVars[k] : k \in 1..Len(requiredEnvVars) }
    /\ orch = <<>>
    /\ overlapped = FALSE
    /\ scrape = ScraperIdle
    /\ market = NONE
    /\ seed = NONE

\* fetchETFData is called for the catalog entry at index without the mock
\* flag: the request is sent and the invocation waits for fetch to settle
\* (line 62)
RequestQuote(s, waited) ==
    [s EXCEPT !.pc = "fetch",
              !.waited = waited,
              !.requests = Append(@, [ticker |-> s.catalog[s.index],
                                      waited |-> waited,
                                      settled |-> NONE,
                                      body |-> NONE])]

\* processBatch (lines 147-149): processETF is called for every record of
\* the batch after position start, and each one issues its listDocuments
\* (line 154) before any of them completes
StartBatch(s, start) ==
    [s EXCEPT !.pc = "process",
              !.start = start,
              !.listing = Batch(s.results, start),
              !.storeOps = [@ EXCEPT !.list = @ + Cardinality(Batch(s.results, start))]]

\* processETFs (lines 131-145) is entered: the first batch is started, or
\* with nothing to process it returns at once and the invocation responds
\* (lines 231-249)
StartProcessing(s) ==
    IF Len(s.results) > 0 THEN StartBatch(s, 0)
    ELSE [s EXCEPT !.pc = "responded",
                   !.response = ScraperSuccess(s.catalog, s.results, s.errors,
                                               s.processResults)]

\* a processETF call has finished: when it was the last of its batch,
\* processETFs starts the 100 ms delay if records remain (lines 139-141) and
\* returns otherwise, and the invocation responds
FinishRecord(s) ==
    IF ~(Batch(s.results, s.start) \subseteq s.done) THEN s
    ELSE IF s.start + batchSize < Len(s.results)
    THEN [s EXCEPT !.pc = "pause", !.delays = @ + 1]
    ELSE [s EXCEPT !.pc = "responded",
                   !.response = ScraperSuccess(s.catalog, s.results, s.errors,
                                               s.processResults)]

\* the body of one iteration of the loop of fetchAllPopularETFs after its
\* delay, given the outcome fetched of its fetchETFData call (main.js, lines
\* 105-124; part_001, lines 141-194).  The try pushes the quote; the catch
\* pushes the error.  The fallback revision also resets the failure counter
\* in the try, and in the catch counts the failure and at the third in a row
\* pushes the quote mockQuote of MOCK_DATA and pops the error
IterationDone(s, fetched, useMockForThisRequest, mockQuote) ==
    LET ticker == s.catalog[s.index]
        failed == fetched.kind = "throw"
        apiFailureCount == IF s.revision = "fallback" /\ failed
                           THEN s.apiFailureCount + 1 ELSE 0
        recovered == failed /\ apiFailureCount >= 3
        pushed == IF failed
                  THEN Append(s.errors, [ticker |-> ticker, error |-> fetched.message])
                  ELSE s.errors
        entry == [ticker |-> ticker,
                  requested |-> ~useMockForThisRequest,
                  failed |-> failed,
                  mocked |-> useMockForThisRequest \/ recovered,
                  waited |-> s.waited]
    IN  [s EXCEPT
            !.index = NextCatalogIndex(s.index, fetched),
            !.results = IF ~failed
                        THEN Append(s.results, EtfRecord(ticker, fetched.value))
                        ELSE IF recovered
                        THEN Append(s.results, EtfRecord(ticker, mockQuote))
                        ELSE s.results,
            !.errors = IF recovered THEN ErrorsAfterRecovery(pushed) ELSE pushed,
            !.apiFailureCount = apiFailureCount,
            !.waited = FALSE,
            !.log = Append(@, entry)]

\* the loop of fetchAllPopularETFs runs on from the head of an iteration
\* whose delay, if any, is over, up to its next await.  With three failures
\* in a row behind it the fallback revision takes a mock quote and the
\* iteration is done without a request (part_001, lines 141-142 and 81-84);
\* otherwise the request is sent.  An iteration done, the loop returns after
\* the last entry and processETFs is entered, or it starts the 1.2 s delay
\* when results is not empty (lines 100-103), or begins the next iteration
RECURSIVE RunIteration(_, _, _), AfterIteration(_, _)
RunIteration(s, waited, mockQuote) ==
    IF s.revision = "fallback" /\ s.apiFailureCount >= 3
    THEN AfterIteration(
             IterationDone([s EXCEPT !.waited = waited],
                           fetchETFDataOrMock(s.catalog[s.index], NONE, NONE,
                                              TRUE, mockQuote),
                           TRUE, mockQuote),
             mockQuote)
    ELSE RequestQuote(s, waited)

AfterIteration(s, mockQuote) ==
    IF s.index > Len(s.catalog) THEN StartProcessing(s)
    ELSE IF Len(s.results) > 0 THEN [s EXCEPT !.pc = "sleep"]
    ELSE RunIteration(s, FALSE, mockQuote)

\* the outcome of the fetchETFData call of the revision that runs
FetchOutcome(s, settled, body, mockQuote) ==
    IF s.revision = "fallback"
    THEN fetchETFDataOrMock(s.catalog[s.index], settled, body, FALSE, mockQuote)
    ELSE fetchETFData(s.catalog[s.index], settled, body)

\* lines 202-226: the default export is invoked and validates the
\* environment; it responds with the error, or enters fetchAllPopularETFs,
\* whose first iteration begins without a delay
InvokeScraper ==
    /\ scrape.pc = "idle"
    /\ LET missing == MissingEnvVars(env)
       IN  \E mockQuote \in MockQuotes :
               scrape' =
                   IF missing # <<>>
                   THEN [scrape EXCEPT
                            !.pc = "responded",
                            !.response =
                                ScraperFailure(MissingEnvMessage(Head(missing)))]
                   ELSE RunIteration(scrape, FALSE, mockQuote)
    /\ UNCHANGED <<scraperFrame, realWorldCollection>>

\* lines 62-68 and 83-88: the fetch of the pending request settles.  With a
\* response the body is read next (line 71 or 75); a rejection or the abort
\* of the timer is what fetchETFData throws, and the iteration is done.
\* mockQuote is the quote MOCK_DATA.generateQuote draws if the catch of the
\* fallback revision calls it
FetchSettled ==
    /\ scrape.pc = "fetch"
    /\ \E settled \in FetchOutcomes, mockQuote \in MockQuotes :
           LET sent == [scrape EXCEPT !.requests[Len(scrape.requests)].settled = settled]
           IN  scrape' =
                   IF settled.kind = "response" THEN [sent EXCEPT !.pc = "body"]
                   ELSE AfterIteration(
                            IterationDone(sent,
                                          FetchOutcome(sent, settled, NONE, mockQuote),
                                          FALSE, mockQuote),
                            mockQuote)
    /\ UNCHANGED <<scraperFrame, realWorldCollection>>

\* lines 70-88: the read of the body of the response settles, fetchETFData
\* returns the quote or throws, and the iteration is done
BodyRead ==
    /\ scrape.pc = "body"
    /\ \E settled \in {scrape.requests[Len(scrape.requests)].settled} :
       \E body \in BodyOutcomes(settled), mockQuote \in MockQuotes :
           LET read == [scrape EXCEPT !.requests[Len(scrape.requests)].body = body]
           IN  scrape' =
                   AfterIteration(
                       IterationDone(read,
                                     FetchOutcome(read, settled, body, mockQuote),
                                     FALSE, mockQuote),
                       mockQuote)
    /\ UNCHANGED <<scraperFrame, realWorldCollection>>

\* line 102: the 1.2 s delay is over and the iteration goes on
DelayOver ==
    /\ scrape.pc = "sleep"
    /\ \E mockQuote \in MockQuotes :
           scrape' = RunIteration(scrape, TRUE, mockQuote)
    /\ UNCHANGED <<scraperFrame, realWorldCollection>>
\* lines 154-158: the listDocuments of one record of the batch completes.
\* With the documents found, processETF issues the update of the first of
\* them or a create (lines 160-178); when the list throws, the catch counts
\* the record as failed (lines 180-183).  The records of a batch complete in
\* any order
ListCompleted ==
    /\ scrape.pc = "process"
    /\ \E k \in scrape.listing, listOk \in BOOLEAN :
           LET etf == scrape.results[k]
               existingDocs == listByTicker(realWorldCollection, etf.ticker)
               branch == IF Len(existingDocs) > 0 THEN "update" ELSE "create"
               docId == IF Len(existingDocs) > 0 THEN existingDocs[1].id ELSE 0
           IN  scrape' =
                   IF listOk
                   THEN [scrape EXCEPT
                            !.listing = @ \ {k},
                            !.writing = @ \cup {[k |-> k, branch |-> branch,
                                                 docId |-> docId]},
                            !.storeOps[branch] = @ + 1]
                   ELSE FinishRecord(
                            [scrape EXCEPT
                                !.listing = @ \ {k},
                                !.done = @ \cup {k},
                                !.threw = @ \cup {k},
                                !.processResults = Tally(@, "failed")])
    /\ UNCHANGED <<scraperFrame, realWorldCollection>>

\* lines 160-183: the updateDocument or createDocument of one record
\* completes and the record is counted as updated or created, or it throws
\* and the catch counts the record as failed
WriteCompleted ==
    /\ scrape.pc = "process"
    /\ \E w \in scrape.writing, writeOk \in BOOLEAN :
           LET documentData == createDocumentData(scrape.results[w.k])
               outcome == IF ~writeOk THEN "failed"
                          ELSE IF w.branch = "update" THEN "updated" ELSE "created"
           IN  /\ realWorldCollection' =
                      IF outcome = "updated"
                      THEN updateDocument(realWorldCollection, w.docId, documentData)
                      ELSE IF outcome = "created"
                      THEN createDocument(realWorldCollection, documentData)
                      ELSE realWorldCollection
               /\ scrape' = FinishRecord(
                      [scrape EXCEPT
                          !.writing = @ \ {w},
                          !.done = @ \cup {w.k},
                          !.threw = IF writeOk THEN @ ELSE @ \cup {w.k},
                          !.processResults = Tally(@, outcome)])
    /\ UNCHANGED scraperFrame

\* line 142: the 100 ms delay is over and the next batch is started
PauseOver ==
    /\ scrape.pc = "pause"
    /\ scrape' = StartBatch(scrape, scrape.start + batchSize)
    /\ UNCHANGED <<scraperFrame, realWorldCollection>>

\* one processETF call moves on
ProcessETF == ListCompleted \/ WriteCompleted

\* the catalog of this specification is shorter than a batch, so processETFs
\* never starts the 100 ms delay here; SpecPersist takes inputs of more than
\* one batch
NextScraper == InvokeScraper \/ FetchSettled \/ BodyRead \/ DelayOver \/ ProcessETF

SpecScraper == InitScraper /\ [][NextScraper]_vars

\* an invocation of either revision, with its environment complete, on an
\* empty store
InitRevisions ==
    /\ pc = "system"
    /\ averageChange = NONE
    /\ marketManipulator = NONE
    /\ manipulatorValue = NONE
    /\ symbols = <<>>
    /\ average = NONE
    /\ realWorldCollection = <<>>
    /\ manipulatorCollection = <<>>
    /\ inGameCollection = <<>>
    /\ env = { requiredEnvVars[k] : k \in 1..Len(requiredEnvVars) }
    /\ orch = <<>>
    /\ overlapped = FALSE
    /\ \E revision \in {"catalog", "fallback"} :
           scrape = [ScraperIdle EXCEPT !.revision = revision]
    /\ market = NONE
    /\ seed = NONE

SpecRevisions == InitRevisions /\ [][NextScraper]_vars

\* an invocation of the fallback revision, with its environment complete,
\* on an empty store, over a catalog long enough for the fallback to set in
\* and to end
InitMockFetch ==
    /\ pc = "system"
    /\ averageChange = NONE
    /\ marketManipulator = NONE
    /\ manipulatorValue = NONE
    /\ symbols = <<>>
    /\ average = NONE
    /\ realWorldCollection = <<>>
    /\ manipulatorCollection = <<>>
    /\ inGameCollection = <<>>
    /\ env = { requiredEnvVars[k] : k \in 1..Len(requiredEnvVars) }
    /\ orch = <<>>
    /\ overlapped = FALSE
    /\ scrape = [ScraperIdle EXCEPT !.revision = "fallback", !.catalog = MockCatalog]
    /\ market = NONE
    /\ seed = NONE

SpecMockFetch == InitMockFetch /\ [][NextScraper]_vars

\* processETFs is called with the quotes of the first n catalog entries, on a
\* store that holds a document for the first of them or none
InitPersist ==
    /\ pc = "system"
    /\ averageChange = NONE
    /\ marketManipulator = NONE
    /\ manipulatorValue = NONE
    /\ symbols = <<>>
    /\ average = NONE
    /\ realWorldCollection \in
           { <<>>, createDocument(<<>>, createDocumentData(
                                            EtfRecord(POPULAR_ETFS[1], GlobalQuote))) }
    /\ manipulatorCollection = <<>>
    /\ inGameCollection = <<>>
    /\ env = { requiredEnvVars[k] : k \in 1..Len(requiredEnvVars) }
    /\ orch = <<>>
    /\ overlapped = FALSE
    /\ \E n \in 1..MaxEtfs :
           scrape = StartBatch(
                        [ScraperIdle EXCEPT
                            !.catalog = SubSeq(POPULAR_ETFS, 1, n),
                            !.index = n + 1,
                            !.results = [k \in 1..n |->
                                            EtfRecord(POPULAR_ETFS[k], GlobalQuote)]],
                        0)
    /\ market = NONE
    /\ seed = NONE

NextPersist == ProcessETF \/ PauseOver

SpecPersist == InitPersist /\ [][NextPersist]_vars
----------------------------------------------------------------------------
(* The sequential scraper (FetchesRealWorldStocks/src/main.js, lines 271-355) *)

\* longest most_actively_traded list of the sequential scraper specification
MaxMostActive == 2

\* 'AlphaVantage API responded with status: '
RespondedWithStatusText ==
    <<"A", "l", "p", "h", "a", "V", "a", "n", "t", "a", "g", "e", " ", "A",
      "P", "I", " ", "r", "e", "s", "p", "o", "n", "d", "e", "d", " ", "w",
      "i", "t", "h", " ", "s", "t", "a", "t", "u", "s", ":", " ">>

\* the message of the TypeError that data.most_actively_traded.filter throws
\* under Node when the body has no most_actively_traded entry
NoFilterText ==
    <<"C", "a", "n", "n", "o", "t", " ", "r", "e", "a", "d", " ", "p", "r",
      "o", "p", "e", "r", "t", "i", "e", "s", " ", "o", "f", " ", "u", "n",
      "d", "e", "f", "i", "n", "e", "d", " ", "(", "r", "e", "a", "d", "i",
      "n", "g", " ", "'", "f", "i", "l", "t", "e", "r", "'", ")">>

\* the message of an exception thrown by a store operation
StoreErrorText ==
    <<"S", "e", "r", "v", "e", "r", " ", "E", "r", "r", "o", "r">>

\* `AlphaVantage API responded with status: ${response.status}`
RespondedWithStatusMessage(status) == RespondedWithStatusText \o IntToChars(status)

\* the message of the TypeError of data.most_actively_traded when data is
\* null
NullDataText ==
    <<"C", "a", "n", "n", "o", "t", " ", "r", "e", "a", "d", " ", "p", "r",
      "o", "p", "e", "r", "t", "i", "e", "s", " ", "o", "f", " ", "n", "u",
      "l", "l", " ", "(", "r", "e", "a", "d", "i", "n", "g", " ", "'", "m",
      "o", "s", "t", "_", "a", "c", "t", "i", "v", "e", "l", "y", "_", "t",
      "r", "a", "d", "e", "d", "'", ")">>

\* the message of the TypeError of data.most_actively_traded.filter when the
\* entry is there and is no array
NotAFunctionText ==
    <<"d", "a", "t", "a", ".", "m", "o", "s", "t", "_", "a", "c", "t", "i",
      "v", "e", "l", "y", "_", "t", "r", "a", "d", "e", "d", ".", "f", "i",
      "l", "t", "e", "r", " ", "i", "s", " ", "n", "o", "t", " ", "a", " ",
      "f", "u", "n", "c", "t", "i", "o", "n">>

\* the message of the TypeError of item.type when an entry of the list is
\* null
NullItemText ==
    <<"C", "a", "n", "n", "o", "t", " ", "r", "e", "a", "d", " ", "p", "r",
      "o", "p", "e", "r", "t", "i", "e", "s", " ", "o", "f", " ", "n", "u",
      "l", "l", " ", "(", "r", "e", "a", "d", "i", "n", "g", " ", "'", "t",
      "y", "p", "e", "'", ")">>

\* entries of most_actively_traded: two funds, a share, and null
ActiveSpy == [ticker |-> "SPY", name |-> "SPDR S&P 500 ETF Trust", type |-> "ETF"]
ActiveQqq == [ticker |-> "QQQ", name |-> "Invesco QQQ Trust", type |-> "ETF"]
ActiveShare == [ticker |-> "IVV", name |-> "a share", type |-> "Equity"]
ActiveSamples == { ActiveSpy, ActiveQqq, ActiveShare, NULL }

\* values of the most_actively_traded entry of a body: an array of entries,
\* or a string
ActiveList(items) == [t |-> "array", items |-> items]
MostActiveSamples ==
    { ActiveList(list) :
        list \in UNION { [1..n -> ActiveSamples] : n \in 0..MaxMostActive } }
        \cup { Str(<<"n", "/", "a">>) }

\* the values response.json() yields for the TOP_GAINERS_LOSERS request: an
\* object with a most_actively_traded entry, an object without one, null
TopListData(mostActive) == [t |-> "object", most_actively_traded |-> mostActive]
TopListBodies ==
    { JsonBody(TopListData(mostActive)) : mostActive \in MostActiveSamples }
        \cup { JsonBody(TopListData(UNDEFINED)), JsonBody(NULL), NotJson, Terminated }

\* what `await fetch(url)` of line 291 settles to; no timer aborts this
\* request
TopListOutcomes == { Responded(200), Responded(429), Rejected }

\* the `log` property of the argument the entry point is invoked with: an
\* object with an info function, or a function, which has no info property
LogSamples == {"logger", "function"}

\* log.info(...): it returns, or the call throws a TypeError
LogInfo(log) ==
    IF log = "logger" THEN Return(UNDEFINED)
    ELSE Throw("log.info is not a function")

\* data.most_actively_traded.filter(item => item.type === 'ETF') (line 297):
\* the funds of the list, or the TypeError thrown: data is null, the entry
\* is missing, it has no filter function, or the callback reaches an entry
\* that is null
FilterETFs(data) ==
    IF data = NULL THEN Throw(NullDataText)
    ELSE IF data.most_actively_traded = UNDEFINED THEN Throw(NoFilterText)
    ELSE IF data.most_actively_traded.t # "array" THEN Throw(NotAFunctionText)
    ELSE IF \E k \in 1..Len(data.most_actively_traded.items) :
                data.most_actively_traded.items[k] = NULL
    THEN Throw(NullItemText)
    ELSE Return(SelectSeq(data.most_actively_traded.items,
                          LAMBDA item : item.type = "ETF"))

\* lines 306-311: the document data of one fund
BasicDocumentData(etf) ==
    [ticker_symbol |-> etf.ticker, etf_name |-> etf.name, category |-> etf.type]

\* lines 350-353: the error response
BasicFailure(message) == Response([success |-> FALSE, error |-> message], 500)

\* lines 342-346: the success response; res.json is called without a status
\* code
BasicSuccess(etfs) ==
    Response([success |-> TRUE, processed |-> Len(etfs)], UNDEFINED)

\* the locals of an invocation before it starts.  log is the logger it is
\* invoked with.  pc is the await the invocation is suspended at: "fetch"
\* (the fetch of the request), "body" (the read of the body of its
\* response), "list" (the listDocuments of etfs[index]), "write" (its
\* updateDocument or createDocument, named by write); an invocation that
\* has ended is "responded", or "rejected" when it threw and sent nothing.
\* storeOps counts the operations issued
BasicScraperIdle ==
    [pc |-> "idle", log |-> "logger", etfs |-> <<>>, index |-> 1, write |-> NONE,
     storeOps |-> [list |-> 0, create |-> 0, update |-> 0],
     response |-> NONE, rejection |-> NONE, runs |-> 0]

basicFrame ==
    <<pureVars, manipulatorCollection, inGameCollection, env, orch, overlapped,
      market, seed>>

\* the store is empty or holds the document the batched revision wrote for
\* the first catalog entry
InitBasicScraper ==
    /\ pc = "system"
    /\ averageChange = NONE
    /\ marketManipulator = NONE
    /\ manipulatorValue = NONE
    /\ symbols = <<>>
    /\ average = NONE
    /\ realWorldCollection \in
           { <<>>, createDocument(<<>>, createDocumentData(
                                            EtfRecord(POPULAR_ETFS[1], GlobalQuote))) }
    /\ manipulatorCollection = <<>>
    /\ inGameCollection = <<>>
    /\ env = { requiredEnvVars[k] : k \in 1..Len(requiredEnvVars) }
    /\ orch = <<>>
    /\ overlapped = FALSE
    /\ scrape = BasicScraperIdle
    /\ market = NONE
    /\ seed = NONE

\* lines 304-318 and 342-346: the loop issues the listDocuments of
\* etfs[index], or, past the last fund, the invocation responds
NextFund(s, index) ==
    IF index > Len(s.etfs)
    THEN [s EXCEPT !.pc = "responded", !.index = index, !.write = NONE,
                   !.response = BasicSuccess(s.etfs)]
    ELSE [s EXCEPT !.pc = "list", !.index = index, !.write = NONE,
                   !.storeOps.list = @ + 1]

\* lines 348-354: the catch logs the error through log.info and responds
\* with 500.  The invocations that get here have passed line 289, so their
\* log.info returns
BasicCaught(s, message) ==
    [s EXCEPT !.pc = "responded", !.write = NONE, !.response = BasicFailure(message)]

\* lines 273-291 and 348-349: the default export is invoked; it logs through
\* log.info (line 289) and sends its request.  When log.info throws, the
\* catch calls it again (line 349), and the invocation is rejected: no
\* request is sent and no response
InvokeBasicScraper ==
    /\ scrape.pc \in {"idle", "responded", "rejected"}
    /\ scrape.runs < MaxRuns
    /\ \E log \in LogSamples :
           scrape' =
               IF LogInfo(log).kind = "throw"
               THEN [BasicScraperIdle EXCEPT !.pc = "rejected",
                                             !.log = log,
                                             !.rejection = LogInfo(log).message,
                                             !.runs = scrape.runs + 1]
               ELSE [BasicScraperIdle EXCEPT !.pc = "fetch",
                                             !.log = log,
                                             !.runs = scrape.runs + 1]
    /\ UNCHANGED <<basicFrame, realWorldCollection>>

\* lines 291-294 and 348-354: the fetch settles.  A rejection, and the error
\* thrown for a status outside 2xx, go to the catch; the body of a 2xx
\* response is read next (line 296)
TopListSettled ==
    /\ scrape.pc = "fetch"
    /\ \E settled \in TopListOutcomes :
           scrape' =
               IF settled.kind = "rejected" THEN BasicCaught(scrape, FetchFailedText)
               ELSE IF ~ResponseOk(settled)
               THEN BasicCaught(scrape, RespondedWithStatusMessage(settled.status))
               ELSE [scrape EXCEPT !.pc = "body"]
    /\ UNCHANGED <<basicFrame, realWorldCollection>>

\* lines 296-318 and 348-354: the read of the body settles.  A rejection of
\* response.json() and a TypeError of the filter go to the catch; with the
\* funds filtered the loop is entered
TopListAnswered ==
    /\ scrape.pc = "body"
    /\ \E body \in TopListBodies :
           scrape' =
               IF body.kind = "not json" THEN BasicCaught(scrape, NotJsonText)
               ELSE IF body.kind = "terminated" THEN BasicCaught(scrape, TerminatedText)
               ELSE IF FilterETFs(body.data).kind = "throw"
               THEN BasicCaught(scrape, FilterETFs(body.data).message)
               ELSE NextFund([scrape EXCEPT !.etfs = FilterETFs(body.data).value], 1)
    /\ UNCHANGED <<basicFrame, realWorldCollection>>

\* lines 314-337 and 348-354: the listDocuments of the current fund
\* completes and its updateDocument or createDocument is issued; when it
\* throws, the catch around the loop responds with 500
BasicListCompleted ==
    /\ scrape.pc = "list"
    /\ \E listOk \in BOOLEAN :
           LET etf == scrape.etfs[scrape.index]
               existingDocs == listByTicker(realWorldCollection, etf.ticker)
               branch == IF Len(existingDocs) > 0 THEN "update" ELSE "create"
               docId == IF Len(existingDocs) > 0 THEN existingDocs[1].id ELSE 0
           IN  scrape' =
                   IF listOk
                   THEN [scrape EXCEPT
                            !.pc = "write",
                            !.write = [branch |-> branch, docId |-> docId],
                            !.storeOps[branch] = @ + 1]
                   ELSE BasicCaught(scrape, StoreErrorText)
    /\ UNCHANGED <<basicFrame, realWorldCollection>>

\* lines 320-340 and 348-354: the updateDocument or createDocument of the
\* current fund completes and the loop goes on; when it throws, the catch
\* around the loop responds with 500 and the remaining funds are not written
BasicWriteCompleted ==
    /\ scrape.pc = "write"
    /\ \E writeOk \in BOOLEAN :
           LET data == BasicDocumentData(scrape.etfs[scrape.index])
           IN  /\ realWorldCollection' =
                      IF ~writeOk THEN realWorldCollection
                      ELSE IF scrape.write.branch = "update"
                      THEN updateDocument(realWorldCollection, scrape.write.docId, data)
                      ELSE createDocument(realWorldCollection, data)
               /\ scrape' =
                      IF writeOk THEN NextFund(scrape, scrape.index + 1)
                      ELSE BasicCaught(scrape, StoreErrorText)
    /\ UNCHANGED basicFrame

NextBasicScraper ==
    \/ InvokeBasicScraper
    \/ TopListSettled
    \/ TopListAnswered
    \/ BasicListCompleted
    \/ BasicWriteCompleted

SpecBasicScraper == InitBasicScraper /\ [][NextBasicScraper]_vars

----------------------------------------------------------------------------
(* The seeding entry point (InGameMarketManager/src/main.js) *)

\* number of catalog stocks the seeding specification iterates over
SeedSize == 4
\* number of invocations of the seeding entry point in one behaviour
MaxSeedRuns == 3

StockNflz == Stock("NFLZ", Str(<<"4", "9", "8", ".", "3", "2">>))
StockGoogz == Stock("GOOGZ", Str(<<"1", "5", "2", "1", ".", "6", "4">>))
StockAmzq == Stock("AMZQ", Str(<<"3", "2", "5", "6", ".", "9", "1">>))
StockTsly == Stock("TSLY", Str(<<"7", "8", "4", ".", "3", "5">>))
StockMsfx == Stock("MSFX", Str(<<"2", "8", "9", ".", "7", "6">>))

\* the first entries of the inGameStocks array (lines 18-69)
inGameStocksHead ==
    <<StockAppx, StockNflz, StockGoogz, StockAmzq, StockTsly, StockMsfx>>

\* the catalog the seeding specification iterates over
inGameStocks == SubSeq(inGameStocksHead, 1, SeedSize)

\* context.error(...): it returns, or the call throws a TypeError
ContextError(context) ==
    IF context = "logger" THEN Return(UNDEFINED)
    ELSE IF context = "undefined"
        THEN Throw("Cannot read properties of undefined (reading 'error')")
    ELSE Throw("context.error is not a function")

\* the locals of a seeding invocation before it starts; context is the
\* `context` property of the argument it is invoked with; attempted and
\* added count the createDocument calls issued so far and those completed,
\* failedAt is the position of the record whose createDocument threw (0
\* when none did); an invocation that has ended is "responded", or
\* "rejected" when it threw and sent nothing
SeederIdle ==
    [pc |-> "idle", context |-> "logger", index |-> 1, attempted |-> 0,
     added |-> 0, failedAt |-> 0, response |-> NONE, rejection |-> NONE,
     runs |-> 0, successes |-> 0]

seederFrame ==
    <<pureVars, realWorldCollection, manipulatorCollection, env, orch, overlapped,
      scrape, market>>

InitSeeder ==
    /\ pc = "system"
    /\ averageChange = NONE
    /\ marketManipulator = NONE
    /\ manipulatorValue = NONE
    /\ symbols = <<>>
    /\ average = NONE
    /\ realWorldCollection = <<>>
    /\ manipulatorCollection = <<>>
    /\ inGameCollection = <<>>
    /\ env = {}
    /\ orch = <<>>
    /\ overlapped = FALSE
    /\ scrape = NONE
    /\ market = NONE
    /\ seed = SeederIdle

\* lines 5-74 and 87-94: the default export is invoked, addInGameStocks
\* enters its loop and issues the createDocument of the first stock
InvokeSeeder ==
    /\ seed.pc \in {"idle", "responded", "rejected"}
    /\ seed.runs < MaxSeedRuns
    /\ \E context \in ContextSamples :
           seed' = [SeederIdle EXCEPT !.pc = "create",
                                      !.context = context,
                                      !.attempted = 1,
                                      !.runs = seed.runs + 1,
                                      !.successes = seed.successes]
    /\ UNCHANGED <<seederFrame, inGameCollection>>

\* line 81: res.json({}) is called without a status code
SeederResponse == Response(<<>>, UNDEFINED)

\* lines 73-81 and 93-101: the pending createDocument completes.  After a
\* createDocument that returns, context.log is called (line 96) and the
\* loop issues the createDocument of the next stock, or after the last one
\* logs once more (line 98).  The try block encloses the loop, so a
\* createDocument that throws ends the loop, and the catch calls
\* context.error (line 100).  After the loop, or after the catch, the
\* default export responds with {}.  A context.log that throws at line 96
\* ends the loop as well; the context.error of the catch then throws too,
\* addInGameStocks is rejected, the catch of the default export calls
\* context.log (line 76), which throws again, and the invocation is
\* rejected without a response
CreateStock ==
    /\ seed.pc = "create"
    /\ \E storeOk \in BOOLEAN :
           LET stock == inGameStocks[seed.index]
               last == seed.index = Len(inGameStocks)
               created == IF storeOk THEN [seed EXCEPT !.added = @ + 1]
                          ELSE [seed EXCEPT !.failedAt = seed.index]
               caught == IF storeOk THEN ContextLog(seed.context)
                         ELSE Throw("store error")
           IN  /\ inGameCollection' =
                      IF storeOk THEN createDocument(inGameCollection, stock)
                      ELSE inGameCollection
               /\ seed' =
                      IF caught.kind = "throw"
                      THEN IF ContextError(seed.context).kind = "throw"
                           THEN [created EXCEPT
                                    !.pc = "rejected",
                                    !.rejection = ContextLog(seed.context).message]
                           ELSE [created EXCEPT !.pc = "responded",
                                                !.response = SeederResponse]
                      ELSE IF last
                      THEN [created EXCEPT !.pc = "responded",
                                           !.successes = @ + 1,
                                           !.response = SeederResponse]
                      ELSE [created EXCEPT !.index = @ + 1, !.attempted = @ + 1]
    /\ UNCHANGED seederFrame

NextSeeder == InvokeSeeder \/ CreateStock

SpecSeeder == InitSeeder /\ [][NextSeeder]_vars

----------------------------------------------------------------------------
(* Runs of processETF (main.js lines 147-184): concurrent, and one after  *)
(* the other                                                              *)

\* number of processETF calls in progress at once: the records of one
\* Promise.all batch, or of overlapping invocations
MaxTasks == 3

\* the tickers of the concurrent records
RaceTickers == { POPULAR_ETFS[1], POPULAR_ETFS[2] }

\* the locals of one processETF call that has issued its listDocuments
UpsertTask(ticker) ==
    [etf |-> EtfRecord(ticker, GlobalQuote), pc |-> "list", existingDocs |-> <<>>,
     outcome |-> "pending"]

raceFrame ==
    <<pureVars, manipulatorCollection, inGameCollection, env, orch, overlapped,
      market, seed>>

InitUpsertRace ==
    /\ pc = "system"
    /\ averageChange = NONE
    /\ marketManipulator = NONE
    /\ manipulatorValue = NONE
    /\ symbols = <<>>
    /\ average = NONE
    /\ realWorldCollection = <<>>
    /\ manipulatorCollection = <<>>
    /\ inGameCollection = <<>>
    /\ env = { requiredEnvVars[k] : k \in 1..Len(requiredEnvVars) }
    /\ orch = <<>>
    /\ overlapped = FALSE
    /\ \E n \in 2..MaxTasks : \E tickers \in [1..n -> RaceTickers] :
           scrape = [tasks |-> [t \in 1..n |-> UpsertTask(tickers[t])],
                     processResults |-> [created |-> 0, updated |-> 0, failed |-> 0]]
    /\ market = NONE
    /\ seed = NONE

\* lines 154-158 and 180-183: the listDocuments of one call completes
ListExisting(t) ==
    /\ scrape.tasks[t].pc = "list"
    /\ \E storeOk \in BOOLEAN :
           scrape' =
               IF storeOk
               THEN [scrape EXCEPT
                        !.tasks[t].pc = "write",
                        !.tasks[t].existingDocs =
                            listByTicker(realWorldCollection, scrape.tasks[t].etf.ticker)]
               ELSE [scrape EXCEPT
                        !.tasks[t].pc = "done",
                        !.tasks[t].outcome = "failed",
                        !.processResults = Tally(@, "failed")]
    /\ UNCHANGED <<raceFrame, realWorldCollection>>

\* lines 160-183: the updateDocument or createDocument of one call completes
WriteExisting(t) ==
    /\ scrape.tasks[t].pc = "write"
    /\ \E storeOk \in BOOLEAN :
           LET task == scrape.tasks[t]
               documentData == createDocumentData(task.etf)
               outcome == IF ~storeOk THEN "failed"
                          ELSE IF Len(task.existingDocs) > 0 THEN "updated"
                          ELSE "created"
           IN  /\ realWorldCollection' =
                      IF outcome = "updated"
                      THEN updateDocument(realWorldCollection, task.existingDocs[1].id,
                                          documentData)
                      ELSE IF outcome = "created"
                      THEN createDocument(realWorldCollection, documentData)
                      ELSE realWorldCollection
               /\ scrape' = [scrape EXCEPT
                                !.tasks[t].pc = "done",
                                !.tasks[t].outcome = outcome,
                                !.processResults = Tally(@, outcome)]
    /\ UNCHANGED raceFrame

NextUpsertRace ==
    \E t \in 1..Len(scrape.tasks) : ListExisting(t) \/ WriteExisting(t)

SpecUpsertRace == InitUpsertRace /\ [][NextUpsertRace]_vars

\* collections that hold no document for the ticker: none at all, or
\* documents of another ticker of the catalog
StoresWithout(ticker) ==
    LET other == CHOOSE t \in RaceTickers : t # ticker
    IN  { <<>>,
          createDocument(<<>>, createDocumentData(EtfRecord(other, GlobalQuote))),
          createDocument(
              createDocument(<<>>, createDocumentData(EtfRecord(other, MockQuoteDown))),
              createDocumentData(EtfRecord(POPULAR_ETFS[3], MockQuoteFlat))) }

\* processETF is called for a record, of one of two quotes, on a collection
\* without a document for its ticker; before is that collection
InitUpsertTwice ==
    /\ pc = "system"
    /\ averageChange = NONE
    /\ marketManipulator = NONE
    /\ manipulatorValue = NONE
    /\ symbols = <<>>
    /\ average = NONE
    /\ \E ticker \in RaceTickers, quote \in {GlobalQuote, MockQuoteDown} :
           /\ realWorldCollection \in StoresWithout(ticker)
           /\ scrape = [tasks |-> <<[UpsertTask(ticker) EXCEPT
                                        !.etf = EtfRecord(ticker, quote)]>>,
                        processResults |-> [created |-> 0, updated |-> 0, failed |-> 0],
                        before |-> realWorldCollection]
    /\ manipulatorCollection = <<>>
    /\ inGameCollection = <<>>
    /\ env = { requiredEnvVars[k] : k \in 1..Len(requiredEnvVars) }
    /\ orch = <<>>
    /\ overlapped = FALSE
    /\ market = NONE
    /\ seed = NONE

\* the processETF call has returned, and processETF is called again with
\* the same record: the run of a later invocation, after the earlier one
UpsertAgain ==
    /\ Len(scrape.tasks) < MaxRuns
    /\ scrape.tasks[Len(scrape.tasks)].pc = "done"
    /\ scrape' = [scrape EXCEPT
                     !.tasks = Append(@, [UpsertTask(scrape.tasks[1].etf.ticker) EXCEPT
                                             !.etf = scrape.tasks[1].etf])]
    /\ UNCHANGED <<raceFrame, realWorldCollection>>

NextUpsertTwice ==
    \/ UpsertAgain
    \/ \E t \in 1..Len(scrape.tasks) : ListExisting(t) \/ WriteExisting(t)

SpecUpsertTwice == InitUpsertTwice /\ [][NextUpsertTwice]_vars

----------------------------------------------------------------------------
(* The scraper's documents read by the manipulator *)

\* number of records of the scraper run that precedes the manipulator run
MaxWrites == 2

\* well-formed quotes: the price and the change percentage are numerals
QuoteSix == [price |-> Str(<<"4", "0", ".", "2", "5">>),
             change_percent |-> Str(<<"6", "%">>)]
WellFormedQuotes == { GlobalQuote, QuoteSix, MockQuoteDown, MockQuoteFlat }

\* x || 0 for a number x
OrZero(x) == IF isNaN(x) \/ IsZero(x) THEN I(0) ELSE x

\* the documentData of the TOP_GAINERS_LOSERS revision (part_000, lines
\* 85-95): price and change_percentage are parsed to numbers
documentDataParsed(etf) ==
    [ticker_symbol |-> etf.ticker,
     price |-> Num(OrZero(parseFloat(etf.price.s))),
     change_percentage |->
         Num(OrZero(parseFloat(ReplaceFirst(etf.change_percentage.s, "%"))))]

\* the document data that a scraper revision writes for a record
DocumentDataOf(revision, etf) ==
    IF revision = "catalog" THEN createDocumentData(etf) ELSE documentDataParsed(etf)

pipelineFrame ==
    <<pc, averageChange, marketManipulator, manipulatorValue, manipulatorCollection,
      inGameCollection, env, orch, overlapped, market, seed>>

\* the records a run of a revision hands to processETFs: the catalog
\* revision has one per catalog ticker it obtained a quote for, in catalog
\* order; the batched revision (part_000) has the funds of
\* most_actively_traded, whatever their tickers, in the order of the body
PipelineRecords(revision, n) ==
    IF revision = "catalog"
    THEN { [k \in 1..n |-> EtfRecord(POPULAR_ETFS[k], quotes[k])] :
             quotes \in [1..n -> WellFormedQuotes] }
    ELSE [1..n -> { EtfRecord(ticker, quote) :
                      ticker \in RaceTickers, quote \in WellFormedQuotes }]

\* a run of a scraper revision, with its environment complete, has entered
\* processETFs on an empty collection with the records of one batch, and
\* every record has issued its listDocuments (main.js, lines 147-158;
\* part_000, lines 79-101)
InitPipeline ==
    /\ pc = "system"
    /\ averageChange = NONE
    /\ marketManipulator = NONE
    /\ manipulatorValue = NONE
    /\ symbols = <<>>
    /\ average = NONE
    /\ realWorldCollection = <<>>
    /\ manipulatorCollection = <<>>
    /\ inGameCollection = <<>>
    /\ env = { requiredEnvVars[k] : k \in 1..Len(requiredEnvVars) }
    /\ orch = <<>>
    /\ overlapped = FALSE
    /\ \E revision \in {"catalog", "batched"}, n \in 1..MaxWrites :
       \E etfs \in PipelineRecords(revision, n) :
           scrape = [revision |-> revision, pc |-> "scrape",
                     tasks |-> [t \in 1..n |->
                                   [UpsertTask(etfs[t].ticker) EXCEPT !.etf = etfs[t]]],
                     processResults |-> [created |-> 0, updated |-> 0, failed |-> 0]]
    /\ market = NONE
    /\ seed = NONE

\* the listDocuments of one record completes (main.js, lines 154-158 and
\* 180-183; part_000, lines 97-101 and 124-127)
ListForQuote ==
    /\ scrape.pc = "scrape"
    /\ \E t \in 1..Len(scrape.tasks) : ListExisting(t)

\* the updateDocument or createDocument of one record completes, with the
\* document data of the revision, or throws (main.js, lines 160-183;
\* part_000, lines 103-127)
WriteQuote ==
    /\ scrape.pc = "scrape"
    /\ \E t \in 1..Len(scrape.tasks), storeOk \in BOOLEAN :
           LET task == scrape.tasks[t]
               documentData == DocumentDataOf(scrape.revision, task.etf)
               outcome == IF ~storeOk THEN "failed"
                          ELSE IF Len(task.existingDocs) > 0 THEN "updated"
                          ELSE "created"
           IN  /\ task.pc = "write"
               /\ realWorldCollection' =
                      IF outcome = "updated"
                      THEN updateDocument(realWorldCollection, task.existingDocs[1].id,
                                          documentData)
                      ELSE IF outcome = "created"
                      THEN createDocument(realWorldCollection, documentData)
                      ELSE realWorldCollection
               /\ scrape' = [scrape EXCEPT
                                !.tasks[t].pc = "done",
                                !.tasks[t].outcome = outcome,
                                !.processResults = Tally(@, outcome)]
    /\ UNCHANGED <<pipelineFrame, symbols, average>>

\* the manipulator is invoked after the run: it reads the collection (lines
\* 559-571) and runs calculateAverageChange on it (line 485)
AggregateCollection ==
    /\ scrape.pc = "scrape"
    /\ \A t \in 1..Len(scrape.tasks) : scrape.tasks[t].pc = "done"
    /\ Len(realWorldCollection) > 0
    /\ symbols' = realWorldCollection
    /\ \E outcome \in {calculateAverageChange(realWorldCollection)} : average' = outcome
    /\ scrape' = [scrape EXCEPT !.pc = "aggregated"]
    /\ UNCHANGED <<pipelineFrame, realWorldCollection>>

NextPipeline == ListForQuote \/ WriteQuote \/ AggregateCollection

SpecPipeline == InitPipeline /\ [][NextPipeline]_vars

----------------------------------------------------------------------------
(* Properties of the manipulator function *)

\* the natural number a < 2^28 as an integer
ToInt(a) == Limb(a, 1) + (Base * Limb(a, 2))

\* the integer k with k/100 nearest to the finite number x
NearestHundredth(x) == x.sign * ToInt(Hundredths(MathAbs(x)))

\* x is a whole multiple of 1/100, as far as a double can be: the double
\* nearest to k/100 for an integer k
IsHundredth(x) ==
    /\ x.class = "finite"
    /\ \/ IsZero(x)
       \/ Only({ k # <<>> /\ RoundRatio(1, k, <<100>>, 0) = MathAbs(x)
                 : k \in {Hundredths(MathAbs(x))} })

\* |a - b| for the signed naturals sa * a and sb * b
Distance(sa, a, sb, b) ==
    IF a = <<>> \/ b = <<>> \/ sa # sb THEN BigAdd(a, b)
    ELSE IF BigCmp(a, b) >= 0 THEN BigSub(a, b) ELSE BigSub(b, a)

\* |x - p/q| <= a/b in exact arithmetic, for the finite number x, the
\* integers p and a >= 0 and the naturals q, b > 0: both sides are
\* multiplied by q * b and by the power of two that makes x an integer
Within(x, p, q, a, b) ==
    Only({ BigCmp(Distance(x.sign,
                           BigShl(BigMul(x.sig, BigMul(FromInt(q), FromInt(b))), up),
                           IF p < 0 THEN -1 ELSE 1,
                           BigShl(BigMul(FromInt(Abs(p)), FromInt(b)), down)),
                  BigShl(BigMul(FromInt(a), FromInt(q)), down)) <= 0
           : up \in {IF x.exp > 0 THEN x.exp ELSE 0},
             down \in {IF x.exp < 0 THEN -x.exp ELSE 0} })

\* the manipulator function has been applied to averageChange
Calculated == pc \in {"manipulator", "formatted"}

\* the tier table of the design: the magnitude for a = |x|
TableMagnitude(a) ==
    IF Leq(I(0), a) /\ Leq(a, I(2))
        THEN Plus(Q(1, 10), Times(Over(a, I(2)), Minus(Q(15, 10), Q(1, 10))))
    ELSE IF Less(I(2), a) /\ Leq(a, I(5))
        THEN Plus(Q(15, 10), Times(Over(Minus(a, I(2)), I(3)), Q(15, 10)))
    ELSE IF Less(I(5), a) /\ Leq(a, I(10))
        THEN Plus(I(3), Times(Over(Minus(a, I(5)), I(5)), I(2)))
    ELSE I(5)

\* C1: for every input x the magnitude of the returned value equals the tier
\* formula of the table applied to |x|
C1_MagnitudeIsTable ==
    Calculated =>
        MathAbs(marketManipulator) = TableMagnitude(MathAbs(averageChange))

\* C2: for every input x (zero included) the magnitude of the returned value
\* lies in [0.1, 5.0]
C2_MagnitudeInRange ==
    Calculated =>
        /\ Leq(Q(1, 10), MathAbs(marketManipulator))
        /\ Leq(MathAbs(marketManipulator), I(5))

\* the output range of the tier that |x| falls in
InTierRange(a, m) ==
    /\ Leq(a, I(2)) => Leq(Q(1, 10), m) /\ Leq(m, Q(15, 10))
    /\ Less(I(2), a) /\ Leq(a, I(5)) => Less(Q(15, 10), m) /\ Leq(m, I(3))
    /\ Less(I(5), a) /\ Leq(a, I(10)) => Less(I(3), m) /\ Leq(m, I(5))

\* a and b fall in the same sloped tier
SameSlopedTier(a, b) ==
    \/ Leq(a, I(2)) /\ Leq(b, I(2))
    \/ Less(I(2), a) /\ Leq(a, I(5)) /\ Less(I(2), b) /\ Leq(b, I(5))
    \/ Less(I(5), a) /\ Leq(a, I(10)) /\ Less(I(5), b) /\ Leq(b, I(10))

\* C3: within each sloped tier the magnitude stays in the tier's output range
\* and is strictly increasing in |x|
C3_TierRangeAndMonotone ==
    Calculated =>
        LET a == MathAbs(averageChange)
            m == MathAbs(marketManipulator)
        IN  /\ InTierRange(a, m)
            /\ \A y \in AverageInputs :
                   SameSlopedTier(MathAbs(y), a) /\ Less(MathAbs(y), a)
                       => Less(MathAbs(calculateMarketManipulator(y)), m)

\* C3 away from zero: the part of C3 that the code satisfies
C3_HoldsOffZero ==
    Calculated /\ ~IsZero(averageChange) =>
        LET a == MathAbs(averageChange)
            m == MathAbs(marketManipulator)
        IN  /\ InTierRange(a, m)
            /\ \A y \in AverageInputs :
                   /\ ~IsZero(y)
                   /\ SameSlopedTier(MathAbs(y), a)
                   /\ Less(MathAbs(y), a)
                   => Less(MathAbs(calculateMarketManipulator(y)), m)

\* C4: for every input with |x| > 10 the magnitude is exactly 5.0
C4_SaturatesAtFive ==
    Calculated /\ Less(I(10), MathAbs(averageChange)) =>
        MathAbs(marketManipulator) = I(5)

\* an input far above the last threshold has been mapped to magnitude 5
C4_Witness ==
    /\ Calculated
    /\ Less(I(30), MathAbs(averageChange))
    /\ MathAbs(marketManipulator) = I(5)

\* C5: the curve is continuous at |x| = 2, 5 and 10, the lower tier is the
\* one selected at each boundary, and an average of exactly 5 yields 3.0
C5_BoundaryContinuity ==
    Calculated =>
        LET a == MathAbs(averageChange)
            m == MathAbs(marketManipulator)
        IN  /\ a = I(2) =>
                /\ NormalTier(a) = Q(15, 10)
                /\ HighTier(a) = Q(15, 10)
                /\ SelectTier(a) = "normal"
                /\ m = Q(15, 10)
            /\ a = I(5) =>
                /\ HighTier(a) = I(3)
                /\ ExtremeTier(a) = I(3)
                /\ SelectTier(a) = "high"
                /\ m = I(3)
            /\ a = I(10) =>
                /\ ExtremeTier(a) = I(5)
                /\ SelectTier(a) = "extreme"
                /\ m = I(5)

\* an average of exactly 5 has been mapped to 3.0
C5_Witness ==
    /\ Calculated
    /\ averageChange = I(5)
    /\ marketManipulator = I(3)

\* C6: the returned value has the sign of a non-zero input, and the function
\* is odd: f(-x) = -f(x)
C6_SignPreserved ==
    Calculated =>
        /\ ~IsZero(averageChange) =>
               MathSign(marketManipulator) = MathSign(averageChange)
        /\ calculateMarketManipulator(Negate(averageChange)) = Negate(marketManipulator)

\* a negative input has been mapped to a negative manipulator
C6_Witness ==
    /\ Calculated
    /\ Less(averageChange, I(0))
    /\ Less(marketManipulator, I(0))

\* C7: for an average change of exactly 0 the function returns +0.1
C7_ZeroGivesMinimum ==
    Calculated /\ IsZero(averageChange) => marketManipulator = Q(1, 10)

\* C8 as stated: the value returned by the manipulator function is a multiple
\* of 0.01
C8_ReturnIsRounded ==
    Calculated => IsHundredth(marketManipulator)

\* C8 as amended: the function returns the unrounded value; the value that is
\* persisted and reported, Number(marketManipulator.toFixed(2)), is a multiple
\* k/100 of 0.01 (held as the double nearest to it), and k/100 lies within
\* 0.005 of the returned value
C8_FormattedIsRounded ==
    pc = "formatted" =>
        /\ IsHundredth(manipulatorValue)
        /\ Within(marketManipulator, NearestHundredth(manipulatorValue), 100, 1, 200)

\* a returned value that is no multiple of 0.01 has been formatted
C8_Witness ==
    /\ pc = "formatted"
    /\ ~IsHundredth(marketManipulator)
    /\ IsHundredth(manipulatorValue)

----------------------------------------------------------------------------
(* Properties of the change aggregator *)

\* s without a '%' at its end
StripTrailingPercent(s) ==
    IF Len(s) > 0 /\ s[Len(s)] = "%" THEN SubSeq(s, 1, Len(s) - 1) ELSE s

\* s is decimal-string-like: white space at its ends aside, the whole of it
\* is one decimal numeral, an optional sign and digits with at most one
\* decimal point and an optional exponent part
IsDecimalString(s) ==
    LET i0 == SkipWhite(s, 1)
        i1 == IF i0 <= Len(s) /\ s[i0] \in {"+", "-"} THEN i0 + 1 ELSE i0
        i2 == DigitRun(s, i1)
        i3 == AfterFraction(s, i2)
        i6 == AfterExponent(s, i3)
        nDigits == (i2 - i1) + (IF i3 > i2 THEN i3 - (i2 + 1) ELSE 0)
    IN  nDigits > 0 /\ SkipWhite(s, i6) = Len(s) + 1

\* the design's test of a document: price and change_percentage are both
\* present and decimal-string-like, the percentage after a trailing '%' is
\* stripped
IsValidDocument(doc) ==
    /\ doc # NULL
    /\ typeof(doc.price) = "string"
    /\ typeof(doc.change_percentage) = "string"
    /\ IsDecimalString(doc.price.s)
    /\ IsDecimalString(StripTrailingPercent(doc.change_percentage.s))

ValidDocuments(syms) == SelectSeq(syms, IsValidDocument)

\* the percentage that a valid document states, in hundredths (the sample
\* documents state no more than two decimals)
StatedHundredths(doc) ==
    NearestHundredth(parseFloat(StripTrailingPercent(doc.change_percentage.s)))

RECURSIVE SumOfHundredths(_)
SumOfHundredths(docs) ==
    IF docs = <<>> THEN 0
    ELSE StatedHundredths(Head(docs)) + SumOfHundredths(Tail(docs))

\* v is the arithmetic mean of the percentages that docs state.  The sum of
\* doubles differs from the sum of the numbers they stand for by the
\* roundings of its steps: v counts as the mean when it lies within 10^-9
\* of the exact one
IsMeanOf(v, docs) ==
    /\ v.class = "finite"
    /\ Within(v, SumOfHundredths(docs), 100 * Len(docs), 1, 1000000000)

\* C9: with at least one valid document the result is the arithmetic mean of
\* the percentages of exactly the valid documents; a document with a missing
\* or non-numeric field adds nothing to the sum and nothing to the count
C9_MeanOfValidDocuments ==
    pc = "averaged" /\ ValidDocuments(symbols) # <<>> =>
        /\ average.kind = "return"
        /\ IsMeanOf(average.value, ValidDocuments(symbols))

\* C10: with no valid document (the empty sequence included) the aggregator
\* signals an error and returns neither 0 nor NaN
C10_NoValidDocumentThrows ==
    pc = "averaged" /\ ValidDocuments(symbols) = <<>> =>
        /\ average.kind = "throw"
        /\ ~(average.kind = "return" /\ (IsZero(average.value) \/ isNaN(average.value)))

----------------------------------------------------------------------------
(* Properties of the entry points *)

\* price + price * (manipulator / 100), rounded to 2 decimal places
AppliedPrice(price, manipulator) ==
    NumberToFixed2(Plus(price, Times(price, Over(manipulator, I(100)))))

\* the number a stored value stands for (NaN if it is no numeric string)
NumericValue(v) ==
    IF typeof(v) = "string" THEN parseFloat(v.s)
    ELSE IF typeof(v) = "number" THEN v.v
    ELSE NaN

\* C11: a successful market update leaves every stock that had a numeric
\* price with price = round(price + price * (manipulator / 100), 2) and
\* last_change = round(manipulator, 2)
C11_PriceApplied ==
    [][
        /\ market.pc = "invoked"
        /\ market'.pc = "responded"
        /\ market'.response.body.success
        =>
        LET m == NumericValue(manipulatorCollection[1].manipulator)
        IN  \A k \in 1..Len(inGameCollection) :
                LET before == NumericValue(inGameCollection[k].price)
                IN  ~isNaN(before) =>
                        /\ NumericValue(inGameCollection'[k].price)
                               = AppliedPrice(before, m)
                        /\ NumericValue(inGameCollection'[k].last_change)
                               = NumberToFixed2(m)
    ]_vars

\* invocation i has issued the store operation of that name
Issued(i, name) == \E k \in 1..Len(orch[i].ops) : orch[i].ops[k].op = name

\* C13: from an empty manipulator collection, as long as no two invocations
\* of the orchestrator overlap, the collection holds at most one document
C13_SingletonWhenSequential ==
    ~overlapped => Len(manipulatorCollection) <= 1

\* a later invocation, not overlapping any other, found the document and
\* updated it
C13_Witness ==
    /\ ~overlapped
    /\ Len(manipulatorCollection) = 1
    /\ \E i \in Invocations :
           /\ orch[i].pc = "responded"
           /\ orch[i].response.body.success
           /\ Issued(i, "updateDocument")

\* C14: two overlapping invocations that both listed the empty collection and
\* both created a document leave two documents in the collection
C14_RaceDuplicates ==
    \A i, j \in Invocations :
        /\ i # j
        /\ orch[i].pc = "responded" /\ orch[j].pc = "responded"
        /\ orch[i].existingDocuments = <<>> /\ orch[j].existingDocuments = <<>>
        /\ orch[i].response.body.success /\ orch[j].response.body.success
        => Len(manipulatorCollection) >= 2

\* both invocations have taken the create branch: two manipulator documents
C14_Witness ==
    /\ overlapped
    /\ Len(manipulatorCollection) = 2
    /\ \A i \in {1, 2} :
           /\ orch[i].pc = "responded"
           /\ orch[i].existingDocuments = <<>>
           /\ Issued(i, "createDocument")

\* the read of the real-world collection failed, or returned no document, or
\* returned no valid document
FailedBeforePersist(i) ==
    /\ orch[i].pc = "responded"
    /\ \/ ~orch[i].fetchOk
       \/ orch[i].realWorldStockMarket = <<>>
       \/ /\ orch[i].fetchOk
          /\ \A k \in 1..Len(orch[i].realWorldStockMarket) :
                 orch[i].realWorldStockMarket[k] \notin {DocDown, DocSix}

DocumentsFor(ticker) ==
    Cardinality({ k \in 1..Len(realWorldCollection) :
                    realWorldCollection[k].ticker_symbol = ticker })

\* every required environment variable is set
EnvComplete == \A k \in 1..Len(requiredEnvVars) : requiredEnvVars[k] \in env

\* the processETF calls before call t that created a document
CreatedBefore(t) == { u \in 1..(t - 1) : scrape.tasks[u].outcome = "created" }

\* C12: processETF calls for the same record that run one after the other,
\* from a collection without a document for its ticker, leave exactly one
\* document for that ticker: the first call whose store operations succeed
\* creates it, and every later one finds that document and updates it,
\* leaving the collection with the one more document that carries the
\* record's data
C12_UpsertIdempotent ==
    LET etf == scrape.tasks[1].etf
        written == { t \in 1..Len(scrape.tasks) :
                       scrape.tasks[t].outcome \in {"created", "updated"} }
    IN  /\ DocumentsFor(etf.ticker) = (IF written = {} THEN 0 ELSE 1)
        /\ \A t \in written :
               LET task == scrape.tasks[t]
                   docId == Len(scrape.before) + 1
               IN  /\ task.outcome = "created" <=> CreatedBefore(t) = {}
                   /\ task.outcome = "updated" =>
                          /\ Len(task.existingDocs) = 1
                          /\ task.existingDocs[1].id = docId
                   /\ realWorldCollection =
                          Append(scrape.before,
                                 [id |-> docId] @@ createDocumentData(etf))
        /\ written = {} => realWorldCollection = scrape.before
        /\ scrape.processResults.created =
               Cardinality({ t \in written : scrape.tasks[t].outcome = "created" })
        /\ scrape.processResults.updated =
               Cardinality({ t \in written : scrape.tasks[t].outcome = "updated" })

\* on a collection that held a document of another ticker, the first call
\* has created the document and the second call has updated it
C12_Witness ==
    /\ Len(scrape.tasks) = 2
    /\ Len(scrape.before) = 1
    /\ scrape.tasks[1].outcome = "created"
    /\ scrape.tasks[2].outcome = "updated"
    /\ scrape.tasks[2].existingDocs[1].id = 2
    /\ Len(realWorldCollection) = 2
    /\ DocumentsFor(scrape.tasks[1].etf.ticker) = 1

\* C15: with a required environment variable missing the scraper responds
\* with success=false and status 400 and has issued no quote request and no
\* store operation
C15_MissingEnvIs400 ==
    scrape.pc = "responded" /\ ~EnvComplete =>
        /\ scrape.response.body.success = FALSE
        /\ scrape.response.statusCode = 400
        /\ scrape.requests = <<>>
        /\ scrape.storeOps = [list |-> 0, create |-> 0, update |-> 0]
        /\ realWorldCollection = <<>>

\* an invocation without STOCK_API_KEY has responded
C15_Witness ==
    /\ scrape.pc = "responded"
    /\ "STOCK_API_KEY" \notin env
    /\ "APPWRITE_FUNCTION_API_ENDPOINT" \in env
    /\ Includes(scrape.response.body.error, Chars("STOCK_API_KEY"))

\* the provider answered a request of the invocation with status 429
RateLimited ==
    \E k \in 1..Len(scrape.requests) : scrape.requests[k].settled = Responded(429)

\* C16: an invocation in which the provider answered a quote request with
\* HTTP 429 responds with success=false and status 429
C16_RateLimitSurfaced ==
    scrape.pc = "responded" /\ RateLimited =>
        /\ scrape.response.body.success = FALSE
        /\ scrape.response.statusCode = 429


\* C17: in processETFs the records tallied so far are the records completed
\* so far, failed counts exactly the records whose store operation threw,
\* and when processETFs has returned every record of the input is tallied
C17_FailureIsolated ==
    LET tally == scrape.processResults
    IN  /\ tally.created + tally.updated + tally.failed = Cardinality(scrape.done)
        /\ tally.failed = Cardinality(scrape.threw)
        /\ scrape.pc = "responded" =>
               /\ scrape.done = 1..Len(scrape.results)
               /\ tally.created + tally.updated + tally.failed = Len(scrape.results)
               /\ scrape.response.body.details.failed = Cardinality(scrape.threw)

\* a store failure in the first batch of an input of two batches, and the
\* records after it were still processed
C17_Witness ==
    /\ scrape.pc = "responded"
    /\ Len(scrape.results) > batchSize
    /\ scrape.threw = {2}
    /\ scrape.processResults.failed = 1
    /\ Len(realWorldCollection) = Len(scrape.results) - 1

\* the tickers of a sequence of records
Tickers(records) == [k \in 1..Len(records) |-> records[k].ticker]

\* the provider answered the request with a 2xx status and a JSON body that
\* has a 'Global Quote' entry
Obtained(r) ==
    /\ r.settled # NONE /\ r.settled.kind = "response" /\ ResponseOk(r.settled)
    /\ r.body # NONE /\ r.body.kind = "json" /\ ~NoGlobalQuote(r.body.data)

\* the quote requests that did, or did not, obtain a quote
RequestsWith(obtained) ==
    SelectSeq(scrape.requests, LAMBDA r : Obtained(r) = obtained)

\* C18: once fetchAllPopularETFs has returned, every catalog ticker has been
\* requested exactly once and in catalog order, however many requests
\* failed; the failed ones are the errors list, the others the results; and
\* the invocation goes on to persist the quotes obtained and report success
C18_FetchFailureIsolated ==
    scrape.pc \in {"process", "pause", "responded"} /\ EnvComplete =>
        /\ Tickers(scrape.requests) = Catalog
        /\ Tickers(scrape.errors) = Tickers(RequestsWith(FALSE))
        /\ Tickers(scrape.results) = Tickers(RequestsWith(TRUE))
        /\ scrape.pc = "responded" =>
               /\ scrape.response.body.success
               /\ scrape.response.body.fetch_errors = scrape.errors
               /\ scrape.done = 1..Len(scrape.results)

\* the first request timed out, the later ones were made and their quotes
\* stored
C18_Witness ==
    /\ scrape.pc = "responded"
    /\ EnvComplete
    /\ Len(scrape.errors) = 1
    /\ scrape.requests[1].settled = Aborted
    /\ scrape.errors[1] = [ticker |-> Catalog[1], error |-> TimedOutMessage(Catalog[1])]
    /\ scrape.processResults.created = Len(Catalog) - 1

\* C19: an invocation in which every quote request failed responds with
\* success=false and has written nothing to the store
C19_TotalFetchFailureAborts ==
    /\ scrape.pc = "responded"
    /\ EnvComplete
    /\ scrape.results = <<>>
    => /\ scrape.response.body.success = FALSE
       /\ scrape.storeOps.create = 0
       /\ scrape.storeOps.update = 0


\* the number of documents of the in-game collection with that ticker
StocksFor(ticker) ==
    Cardinality({ k \in 1..Len(inGameCollection) :
                    inGameCollection[k].ticker_symbol = ticker })

\* C21: after one or more invocations of the seeding entry point, all of
\* them successful, the in-game collection holds exactly one document for
\* each ticker of the catalog
C21_SeededOnce ==
    /\ seed.pc = "responded"
    /\ seed.runs >= 1
    /\ seed.successes = seed.runs
    => \A k \in 1..Len(inGameStocks) : StocksFor(inGameStocks[k].ticker_symbol) = 1

\* C27: when the createDocument of one record throws in addInGameStocks, the
\* records after it are still attempted
C27_WriteLoopContinues ==
    seed.pc = "responded" /\ seed.failedAt # 0 =>
        seed.attempted = Len(inGameStocks)


\* the string of each manipulator value a success response can carry
ManipulatorStringTable ==
    [x \in { OrchestratorSuccessTable[p].body.manipulator :
               p \in DOMAIN OrchestratorSuccessTable } |->
        Str(NumberToString(x))] @@ <<>>

\* Str(NumberToString(x)), read from the table where the table has it
ManipulatorStringOf(x) ==
    IF x \in DOMAIN ManipulatorStringTable THEN ManipulatorStringTable[x]
    ELSE Str(NumberToString(x))

\* the manipulator collection holds a document with that identifier whose
\* manipulator field is the string of that number
Carries(collection, docId, number) ==
    \E k \in 1..Len(collection) :
        /\ collection[k].id = docId
        /\ collection[k].manipulator = ManipulatorStringOf(number)

\* C22: the step in which an orchestrator invocation responds with
\* success=true is the completion of its update or create, and leaves the
\* response's manipulator value in the document updated or created; a step
\* in which a store operation of the persist stage throws responds with
\* success=false
C22_SuccessMeansPersisted ==
    [][ \A i \in Invocations :
            orch[i].pc # "responded" /\ orch'[i].pc = "responded" =>
                /\ orch'[i].response.body.success =>
                       /\ orch[i].pc = "write"
                       /\ orch'[i].persistOk
                       /\ Issued(i, "createDocument")' \/ Issued(i, "updateDocument")'
                       /\ Carries(manipulatorCollection',
                                  IF orch[i].existingDocuments = <<>>
                                  THEN Len(manipulatorCollection')
                                  ELSE orch[i].existingDocuments[1].id,
                                  orch'[i].response.body.manipulator)
                /\ ~orch'[i].persistOk =>
                       /\ orch'[i].response.body.success = FALSE
                       /\ orch'[i].response.statusCode = 500
                       /\ manipulatorCollection' = manipulatorCollection ]_vars

\* an invocation has updated the document and reported success, and another
\* has failed in the persist stage
C22_Witness ==
    \E i, j \in Invocations :
        /\ orch[i].pc = "responded" /\ orch[i].response.body.success
        /\ Issued(i, "updateDocument")
        /\ orch[j].pc = "responded" /\ ~orch[j].persistOk
        /\ Len(orch[j].ops) = 3


\* C25: every quote request of an invocation but the first is preceded by
\* the 1.2 s delay
C25_RequestsPaced ==
    \A k \in 2..Len(scrape.requests) : scrape.requests[k].waited

\* C28: no record of the results, and no document of the store, comes from a
\* quote body without price or change fields
C28_MalformedQuoteRejected ==
    /\ \A k \in 1..Len(scrape.results) :
           /\ scrape.results[k].price # UNDEFINED
           /\ scrape.results[k].change_percentage # UNDEFINED
    /\ \A k \in 1..Len(realWorldCollection) :
           /\ realWorldCollection[k].price # UNDEFINED
           /\ realWorldCollection[k].change_percentage # UNDEFINED


\* the number of the batch that the record at position k belongs to
BatchOf(k) == (k - 1) \div batchSize

\* C24: a record is finished only when every record of the earlier batches
\* is; the records started and not yet finished are at most batchSize; and
\* the number of inter-batch delays taken is the number of batches started
\* less one, so none follows the last batch
C24_BatchesInSequence ==
    LET n == Len(scrape.results)
        started == { k \in 1..n : k <= scrape.start + batchSize }
    IN  /\ \A k \in scrape.done : \A m \in 1..n : BatchOf(m) < BatchOf(k) => m \in scrape.done
        /\ scrape.done \subseteq started
        /\ \A m \in 1..scrape.start : m \in scrape.done
        /\ Cardinality(started \ scrape.done) <= batchSize
        /\ scrape.delays =
               (scrape.start \div batchSize) + (IF scrape.pc = "pause" THEN 1 ELSE 0)
        /\ scrape.pc = "responded" => scrape.delays = BatchOf(n)

\* the second batch is in flight after one delay, the first one finished
C24_Witness ==
    /\ scrape.pc = "process"
    /\ scrape.start = batchSize
    /\ scrape.delays = 1
    /\ scrape.done = 1..batchSize
    /\ Len(scrape.results) > batchSize


\* C23: once three consecutive real quote requests have failed, the ticker
\* of the third failure and every later ticker is served from MOCK_DATA and
\* no further request is sent to the provider
C23_FallbackIsPermanent ==
    \A j \in 3..Len(scrape.log) :
        /\ scrape.log[j - 2].failed
        /\ scrape.log[j - 1].failed
        /\ scrape.log[j].failed
        => /\ scrape.log[j].mocked
           /\ \A m \in (j + 1)..Len(scrape.log) :
                  scrape.log[m].mocked /\ ~scrape.log[m].requested

\* how often the ticker occurs in a list of records
Occurrences(records, ticker) ==
    Cardinality({ k \in 1..Len(records) : records[k].ticker = ticker })

\* C29: once fetchAllPopularETFs has returned, in either revision, every
\* catalog ticker is once in exactly one of results and errors; a ticker
\* recovered with mock data is in results and not in errors; and the counts
\* of the response are the lengths of the two lists and add up to the
\* length of the catalog
C29_FetchAccounting ==
    scrape.pc \in {"process", "pause", "responded"} =>
        /\ \A k \in 1..Len(scrape.catalog) :
               Occurrences(scrape.results, scrape.catalog[k])
                   + Occurrences(scrape.errors, scrape.catalog[k]) = 1
        /\ \A k \in 1..Len(scrape.log) :
               scrape.log[k].mocked =>
                   /\ Occurrences(scrape.results, scrape.log[k].ticker) = 1
                   /\ Occurrences(scrape.errors, scrape.log[k].ticker) = 0
        /\ scrape.pc = "responded" =>
               LET details == scrape.response.body.details
               IN  /\ details.total_attempted = Len(scrape.catalog)
                   /\ details.total_fetched = Len(scrape.results)
                   /\ details.fetch_errors = Len(scrape.errors)
                   /\ details.total_fetched + details.fetch_errors
                          = details.total_attempted

\* the fallback revision has responded: the third consecutive failure was
\* recovered with mock data, the two before it are errors
C29_Witness ==
    /\ scrape.pc = "responded"
    /\ scrape.revision = "fallback"
    /\ scrape.log[3].failed /\ scrape.log[3].mocked
    /\ Tickers(scrape.errors) = SubSeq(scrape.catalog, 1, 2)
    /\ scrape.response.body.details.fetch_errors = 2
    /\ scrape.response.body.details.total_fetched = Len(scrape.catalog) - 2


\* C26: whatever the interleaving of concurrent processETF calls, the
\* real-world collection holds at most one document per ticker
C26_TickerUnique ==
    \A ticker \in RaceTickers : DocumentsFor(ticker) <= 1


\* C30: a manipulator run over a collection that holds only documents
\* written by a scraper revision from well-formed quotes does not end with
\* 'No valid symbols found for calculation'
C30_ScraperDocumentsAccepted ==
    scrape.pc = "aggregated" => average.kind = "return"

====
